---- MODULE Spec2Model ----
(***************************************************************************)
(* seclog: synthetic security-log generator.                               *)
(*                                                                         *)
(* The module models three parts of the program and gives one              *)
(* specification to each:                                                  *)
(*   SpecGen  - one source generator (actor profiles + scheduler heap),    *)
(*              src/src/sources/entra_id/generator.rs,                     *)
(*              src/crates/seclog-sources-cloudtrail/src/generator.rs,     *)
(*              src/src/core/actors.rs;                                    *)
(*   SpecSink - one file sink driven by arbitrary write_event / flush /    *)
(*              close calls, src/src/formats/json.rs and parquet.rs;       *)
(*   Spec     - the whole run of `gen`: dispatcher, source generators,     *)
(*              bounded queues, writer shards and their sinks,             *)
(*              src/src/main.rs.                                           *)
(*                                                                         *)
(* Simulated time is an integer count of ticks since 1970-01-01T00:00:00Z  *)
(* (a Thursday); one millisecond is SubMs ticks, so that the millisecond   *)
(* formatting of timestamps really truncates.  Wall-clock time is an       *)
(* integer count of seconds since the process started.                     *)
(***************************************************************************)
EXTENDS Integers, Sequences, FiniteSets, TLC

VARIABLES
    \* ---- configuration, fixed after Init
    startTime,      \* start_sim_time (ticks)
    sourceType,     \* [Sources -> {"cloudtrail", "entra_id"}]
    catalogOk,      \* [Sources -> BOOLEAN]: FALSE when the catalogue holds an empty event name
    regions,        \* [Sources -> set of region names]  (CloudTrail `regions`)
    rng,            \* [Sources -> the stream of the generator's StdRng]: "any" when each
                    \* draw may be any value of its range, "low" or "high" when the
                    \* stream yields the least or the greatest value of every range
    \* ---- source generators
    actors,         \* [Sources -> [actor index -> ActorProfile]]
    schedule,       \* [Sources -> set of <<time, actor index>>]  (BinaryHeap<Reverse<..>>)
    genRet,         \* [Sources -> value returned by the last next_event() step]
    produced,       \* [Sources -> Seq(Event)]  history of the events next_event() returned
    \* ---- output configuration, fixed after Init
    target_size_mb, \* output.files.target_size_mb
    max_age_seconds,\* output.files.max_age_seconds
    sinkKind,       \* [Sources -> {"json", "parquet"}]  the writer built for the source
    \* ---- sinks and the file system
    wall,           \* Instant::now(), in seconds
    sink,           \* [ShardIds -> the EventWriter of the shard]
    fs,             \* the files of the output directory, in the order of their creation
    \* ---- run configuration, fixed after Init
    writer_shards,  \* --writer-shards, normalised
    hashSalt,       \* the function DefaultHasher computes
    max_events,     \* --max-events
    max_seconds,    \* --max-seconds
    faulty,         \* TRUE when the I/O calls of the writer shards can fail
    \* ---- the dispatcher
    pc,             \* "startup", "loop", "send", "fill", "flush", "close", "join", "exit"
    idx,            \* the source being filled or dispatched
    loop_start,     \* Instant::now() at the top of the iteration
    held,           \* the event taken from the peek, not yet sent
    event_time,     \* its time
    next_event,     \* [Sources -> SourceState::next_event]
    next_event_time,\* [Sources -> SourceState::next_event_time]
    total_dispatched,
    next_flush,
    cursor,         \* position in the walk over the senders or the handles
    \* ---- the writer shards
    queue,          \* [ShardIds -> Seq(WriterCommand)]
    worker,         \* [ShardIds -> "running", "done", "failed"]
    counters,       \* WriterCounters: the shared atomic counters [events, bytes]
    sent,           \* history of the events the dispatcher has sent, with their shard
    exit,           \* "running", then the result of run: "ok", "send_err" (the SendError
                    \* of dispatch_event) or "worker_err" (the Err a joined worker returned)
    \* ---- calls of the library outside a run
    profile,        \* one ActorProfile, driven by any sequence of calls
    called,         \* the last call on it: [op, now, ret]
    popConfig,      \* the PopulationConfig handed to generate_population
    generated,      \* the results of the calls of generate_population, in order
    pfile,          \* the population file: the rows write_population wrote
    loaded,         \* the result of read_population on that file
    events,         \* the Vec<WeightedEvent> a CloudTrail generator is built from
    traffic         \* the TrafficModel: [mode, curve, timezones]

genVars == <<actors, schedule, genRet, produced>>
cfgVars == <<startTime, sourceType, catalogOk, regions, rng>>
outCfgVars == <<target_size_mb, max_age_seconds, sinkKind>>
sinkVars == <<wall, sink, fs>>
runCfgVars == <<writer_shards, hashSalt, max_events, max_seconds, faulty>>
runVars == <<pc, idx, loop_start, held, event_time, next_event, next_event_time,
             total_dispatched, next_flush, cursor, queue, worker, counters, sent, exit>>
popVars == <<popConfig, generated, pfile, loaded>>
libCfgVars == <<events, traffic>>
libVars == <<profile, called, popVars, libCfgVars>>
vars == <<cfgVars, genVars, outCfgVars, sinkVars, runCfgVars, runVars, libVars>>

(***************************************************************************)
(* Bounds of the model.                                                    *)
(***************************************************************************)
SubMs == 2          \* ticks per millisecond (chrono keeps nanoseconds)
MaxGen == 3         \* events one generator returns before the model stops it
MaxSessionEvents == 4   \* the same, for the generator of one actor (SpecSession)
MaxDay == 5         \* last simulated day (since the epoch) a generator pops an entry of

MS == SubMs
SEC == 1000 * MS
MINUTE == 60 * SEC
HOUR == 60 * MINUTE
DAY == 24 * HOUR
MaxTime == MaxDay * DAY

NoTime == 0 - 1     \* Option::None of a DateTime
NoEvent == [none |-> TRUE, more |-> FALSE]      \* next_event() returns None
Continue == [none |-> TRUE, more |-> TRUE]      \* the loop of next_event() goes on
Hangs == [none |-> TRUE, more |-> TRUE, ends |-> FALSE]   \* next_event() does not return

Sources == {1, 2}
ShardIds == Sources \X {0, 1}      \* <<source, index of the writer shard>>

AccountIds == {"111111111111", "222222222222"}
Regions == {"us-east-1", "eu-west-1"}
EntraTenant == "tenant-guid-1"

(***************************************************************************)
(* Actor seeds (ActorSeed): the fields the scheduler reads.                *)
(***************************************************************************)
HumanDay ==       \* a synthesised human: 09:00-17:00 local, UTC-8, weekdays only
    [kind |-> "human", active_start_hour |-> 9, active_hours |-> 8,
     timezone_offset |-> -8, weekend_active |-> FALSE, account_id |-> "111111111111",
     user_agents |-> <<"Mozilla/5.0">>, source_ips |-> <<"198.51.100.7">>]
HumanNight ==     \* an explicit human whose window wraps midnight: 22:00-06:00 local, UTC+8
    [kind |-> "human", active_start_hour |-> 22, active_hours |-> 8,
     timezone_offset |-> 8, weekend_active |-> FALSE, account_id |-> "222222222222",
     user_agents |-> <<"Mozilla/5.0">>, source_ips |-> <<"198.51.100.7">>]
ServiceAlways ==  \* an explicit service active 24 hours
    [kind |-> "service", active_start_hour |-> 0, active_hours |-> 24,
     timezone_offset |-> 0, weekend_active |-> TRUE, account_id |-> "111111111111",
     user_agents |-> <<"aws-sdk">>, source_ips |-> <<"203.0.113.9">>]
ServiceWrap ==    \* a synthesised service: 20:00-12:00 UTC, weekends included
    [kind |-> "service", active_start_hour |-> 20, active_hours |-> 16,
     timezone_offset |-> 0, weekend_active |-> TRUE, account_id |-> "222222222222",
     user_agents |-> <<"aws-sdk">>, source_ips |-> <<"203.0.113.9">>]

HumanLate ==      \* an explicit human: 22:00-06:00 local, UTC-8, weekdays only
    [kind |-> "human", active_start_hour |-> 22, active_hours |-> 8,
     timezone_offset |-> -8, weekend_active |-> FALSE, account_id |-> "222222222222",
     user_agents |-> <<"Mozilla/5.0">>, source_ips |-> <<"198.51.100.7">>]

HumanRoaming ==   \* HumanDay with two user agents
    [HumanDay EXCEPT !.user_agents = <<"Mozilla/5.0", "aws-cli/2.15.0">>]
ServiceRoaming == \* ServiceAlways with two source addresses
    [ServiceAlways EXCEPT !.source_ips = <<"203.0.113.9", "192.0.2.44">>]

None == <<>>              \* Option::None
Some(v) == <<v>>          \* Option::Some(v)

from_seed(seed) ==
    [seed |-> seed, last_event |-> None, session_remaining |-> 0,
     session_end_at |-> NoTime, next_session_at |-> NoTime,
     session_user_agent |-> None, session_source_ip |-> None]

NoCall == [op |-> "from_seed", now |-> NoTime, ret |-> NoTime]

\* WriterCounters::new
NoWrites == [events |-> 0, bytes |-> 0]

NoFile == [written |-> FALSE, from |-> 0, rows |-> <<>>]
NoRead == [read |-> FALSE, ok |-> FALSE, actors |-> <<>>]

\* no population is generated, written or read
IdlePop ==
    /\ popConfig = None
    /\ generated = <<>>
    /\ pfile = NoFile
    /\ loaded = NoRead

\* no catalogue and no traffic model
IdleLibCfg ==
    /\ events = <<>>
    /\ traffic = None

\* no library call outside the run
IdleLib ==
    /\ profile = from_seed(ServiceAlways)
    /\ called = NoCall
    /\ IdlePop
    /\ IdleLibCfg

(***************************************************************************)
(* Values the random number generator can return (subsets of the ranges    *)
(* of the code, end points included).                                      *)
(***************************************************************************)
session_event_count(kind) == IF kind = "human" THEN {3, 9} ELSE {6, 17}
session_minutes(kind) == IF kind = "human" THEN {20, 119} ELSE {10, 59}
cooldown_minutes(kind) == IF kind = "human" THEN {30, 179} ELSE {5, 29}
\* sample_interval: a whole number of milliseconds, at least one
sample_interval == {1 * MS, 45 * MINUTE}

(***************************************************************************)
(* Local calendar arithmetic (chrono).                                     *)
(***************************************************************************)
DateOf(t) == t \div DAY
TimeOfDay(t) == t % DAY
HourOf(t) == TimeOfDay(t) \div HOUR
number_from_monday(date) == ((date + 3) % 7) + 1
is_weekend_date(date) == number_from_monday(date) >= 6
LocalTime(seed, now) == now + seed.timezone_offset * HOUR

\* mutant: the weekend test is forgotten
within_active_window_no_weekend(seed, now) ==
    LET local == LocalTime(seed, now) IN
    IF seed.active_hours >= 24 THEN TRUE
    ELSE LET local_hour == HourOf(local)
             start == seed.active_start_hour
             end == (start + seed.active_hours) % 24
         IN  IF start < end
             THEN local_hour >= start /\ local_hour < end
             ELSE local_hour >= start \/ local_hour < end

within_active_window(seed, now) ==
    LET local == LocalTime(seed, now) IN
    IF ~seed.weekend_active /\ is_weekend_date(DateOf(local)) THEN FALSE
    ELSE IF seed.active_hours >= 24 THEN TRUE
    ELSE LET local_hour == HourOf(local)
             start == seed.active_start_hour
             end == (start + seed.active_hours) % 24
         IN  IF start < end
             THEN local_hour >= start /\ local_hour < end
             ELSE local_hour >= start \/ local_hour < end

\* NaiveDate::and_hms_opt(hour, 0, 0): None when the hour is not an hour of a day
and_hms_opt(date, hour) == IF hour < 24 THEN <<date * DAY + hour * HOUR>> ELSE <<>>

\* The loop of next_active_window_start returns only from a date on which
\* and_hms_opt is Some; on None it goes to the next date, whatever the date.
DayWalkEnds(seed) == \E date \in 0..1 : and_hms_opt(date, seed.active_start_hour) # <<>>

\* (evaluated only when DayWalkEnds: otherwise the walk has no end)
RECURSIVE WindowStartOnOrAfter(_, _, _)
WindowStartOnOrAfter(seed, local, date) ==
    IF ~seed.weekend_active /\ is_weekend_date(date)
    THEN WindowStartOnOrAfter(seed, local, date + 1)
    ELSE IF and_hms_opt(date, seed.active_start_hour) = <<>>
    THEN WindowStartOnOrAfter(seed, local, date + 1)
    ELSE IF date > DateOf(local) \/ TimeOfDay(local) < seed.active_start_hour * HOUR
         THEN date * DAY + seed.active_start_hour * HOUR - seed.timezone_offset * HOUR
         ELSE WindowStartOnOrAfter(seed, local, date + 1)

\* mutant: the start of the window of the first working day, even when it has passed
next_active_window_start_passed(seed, now) ==
    LET local == LocalTime(seed, now)
        date == CHOOSE d \in DateOf(local)..(DateOf(local) + 2) :
                    /\ seed.weekend_active \/ ~is_weekend_date(d)
                    /\ \A c \in DateOf(local)..(d - 1) : ~seed.weekend_active /\ is_weekend_date(c)
    IN  date * DAY + seed.active_start_hour * HOUR - seed.timezone_offset * HOUR

next_active_window_start(seed, now) ==
    LET local == LocalTime(seed, now) IN WindowStartOnOrAfter(seed, local, DateOf(local))

(***************************************************************************)
(* ActorProfile methods.  The random draws are parameters.                 *)
(***************************************************************************)
SessionEnds(p, now) == p.session_end_at # NoTime /\ now >= p.session_end_at

\* is_available: the profile it leaves behind ...
\* mutant: the end of the session leaves the sticky user agent and address
is_available_profile_keeps_sticky(p, now, cooldown) ==
    IF SessionEnds(p, now)
    THEN [p EXCEPT !.session_end_at = NoTime, !.last_event = None,
                   !.session_remaining = 0,
                   !.next_session_at = now + cooldown * MINUTE]
    ELSE p

\* mutant: the end of the session leaves the events of the session
is_available_profile_keeps_remaining(p, now, cooldown) ==
    IF SessionEnds(p, now)
    THEN [p EXCEPT !.session_end_at = NoTime, !.last_event = None,
                   !.session_user_agent = None, !.session_source_ip = None,
                   !.next_session_at = now + cooldown * MINUTE]
    ELSE p

is_available_profile(p, now, cooldown) ==
    IF SessionEnds(p, now)
    THEN [p EXCEPT !.session_end_at = NoTime, !.last_event = None,
                   !.session_remaining = 0,
                   !.session_user_agent = None, !.session_source_ip = None,
                   !.next_session_at = now + cooldown * MINUTE]
    ELSE p

\* mutant: a pending cooldown does not make the actor unavailable
is_available_result_ignores_cooldown(q, now) == within_active_window(q.seed, now)

\* ... and the value it returns, on the profile it left behind
is_available_result(q, now) ==
    /\ within_active_window(q.seed, now)
    /\ ~(q.next_session_at # NoTime /\ now < q.next_session_at)

\* pick_sticky on a list of the seed: the values it can return (the first with
\* the primary weight, else one of the others)
pick_sticky(values) ==
    IF values = <<>> THEN {"unknown"} ELSE { values[n] : n \in DOMAIN values }
pick_user_agent(p) == pick_sticky(p.seed.user_agents)
pick_source_ip(p) == pick_sticky(p.seed.source_ips)

ensure_session(p, now, minutes, count, ua, ip) ==
    LET a == IF p.next_session_at # NoTime /\ now >= p.next_session_at
             THEN [p EXCEPT !.next_session_at = NoTime] ELSE p
        b == IF a.session_end_at = NoTime
             THEN [a EXCEPT !.last_event = None,
                            !.session_end_at = now + minutes * MINUTE,
                            !.session_user_agent = Some(ua),
                            !.session_source_ip = Some(ip)]
             ELSE a
    IN  IF b.session_remaining = 0 THEN [b EXCEPT !.session_remaining = count] ELSE b

\* mutant: every event gets a user agent drawn for it
current_user_agent_resampled(p, drawn) == drawn

\* the value current_user_agent returns: the sticky one, or the one it draws and
\* keeps when there is none (ensure_session has set one in the generators)
current_user_agent(p, drawn) ==
    IF p.session_user_agent = None THEN drawn ELSE p.session_user_agent[1]
current_source_ip(p, drawn) ==
    IF p.session_source_ip = None THEN drawn ELSE p.session_source_ip[1]

\* forget: the outcome of gen_bool(0.2), drawn only when no event remains
consume_session(p, forget) ==
    LET a == IF p.session_remaining > 0
             THEN [p EXCEPT !.session_remaining = p.session_remaining - 1] ELSE p
    IN  IF a.session_remaining = 0 /\ forget THEN [a EXCEPT !.last_event = None] ELSE a

next_available_at(p, now) ==
    LET candidate == IF p.next_session_at # NoTime /\ p.next_session_at > now
                     THEN p.next_session_at ELSE now
    IN  IF within_active_window(p.seed, candidate) THEN candidate
        ELSE next_active_window_start(p.seed, candidate)

\* whether next_available_at returns: it walks the dates only from a candidate
\* outside the active window
NextAvailableReturns(p, now) ==
    LET candidate == IF p.next_session_at # NoTime /\ p.next_session_at > now
                     THEN p.next_session_at ELSE now
    IN  within_active_window(p.seed, candidate) \/ DayWalkEnds(p.seed)

\* mutant: the stream is not a function of the seed
Drawn_unseeded(s, range) == range

\* the values of a range the stream of source s can yield
Drawn(s, range) ==
    CASE rng[s] = "low" -> { v \in range : \A u \in range : v <= u }
      [] rng[s] = "high" -> { v \in range : \A u \in range : v >= u }
      [] OTHER -> range

\* the draws a call makes: none (one dummy value) when the branch that draws is not taken
CooldownDraws(p, now) == IF SessionEnds(p, now) THEN cooldown_minutes(p.seed.kind) ELSE {0}
MinutesDraws(p) == IF p.session_end_at = NoTime THEN session_minutes(p.seed.kind) ELSE {0}
CountDraws(p) == IF p.session_remaining = 0 THEN session_event_count(p.seed.kind) ELSE {0}
ForgetDraws(p) == IF p.session_remaining <= 1 THEN BOOLEAN ELSE {FALSE}

\* gen_bool(0.2) on the stream of source s: true when the sample is below 0.2
GenBool(s, range) ==
    IF range # BOOLEAN THEN range
    ELSE CASE rng[s] = "low" -> {TRUE}
           [] rng[s] = "high" -> {FALSE}
           [] OTHER -> BOOLEAN

\* pick_sticky on the stream of source s: gen_bool(primary_weight) is true for
\* the least sample, gen_range yields the last index for the greatest
StickyDrawn(s, values) ==
    IF values = <<>> THEN pick_sticky(values)
    ELSE CASE rng[s] = "low" -> {values[1]}
           [] rng[s] = "high" -> {values[Len(values)]}
           [] OTHER -> pick_sticky(values)

\* the event name picked for the actor: the empty one of a bad catalogue, or a name
EventName(s, fails) ==
    IF fails THEN "" ELSE IF sourceType[s] = "cloudtrail" THEN "ConsoleLogin" ELSE "signin"

(***************************************************************************)
(* Scheduler helpers of the generators.                                    *)
(***************************************************************************)
\* mutant: the next emission time is not clamped to the end of the session
schedule_after_unclamped(p, now, interval) == next_available_at(p, now + interval)

schedule_after(p, now, interval) ==
    LET next == now + interval
        clamped == IF p.session_end_at # NoTime /\ next > p.session_end_at
                   THEN p.session_end_at ELSE next
    IN  next_available_at(p, clamped)

\* whether schedule_after returns
ScheduleAfterReturns(p, now, interval) ==
    LET next == now + interval
        clamped == IF p.session_end_at # NoTime /\ next > p.session_end_at
                   THEN p.session_end_at ELSE next
    IN  NextAvailableReturns(p, clamped)

schedule_from(p, base, interval) == next_available_at(p, base + interval)

\* the entry BinaryHeap<Reverse<(time, index)>>::pop returns: the least pair
HeapMin(heap) ==
    CHOOSE e \in heap : \A f \in heap : e[1] < f[1] \/ (e[1] = f[1] /\ e[2] <= f[2])

\* to_rfc3339_opts(SecondsFormat::Millis): the timestamp, in whole milliseconds
FormatMillis(t) == t \div MS
\* parse_event_time: the instant a timestamp denotes
parse_event_time(ts) == ts * MS

TenantOf(s, p) == IF sourceType[s] = "cloudtrail" THEN p.seed.account_id ELSE EntraTenant
RegionChoices(s) == IF sourceType[s] = "cloudtrail" THEN regions[s] ELSE {"global"}
\* the regions the stream of source s can yield for its next event: a seeded
\* stream yields one, here the configured regions in turn
RegionOrder == <<"eu-west-1", "us-east-1">>
RegionDrawn(s) ==
    LET Configured(r) == r \in regions[s]
        list == SelectSeq(RegionOrder, Configured)
        turn == Len(produced[s]) + (IF rng[s] = "high" THEN 1 ELSE 0)
    IN  IF sourceType[s] # "cloudtrail" \/ rng[s] = "any" \/ list = <<>>
        THEN RegionChoices(s)
        ELSE {list[(turn % Len(list)) + 1]}

\* whether the event name the stream of source s picks next is the empty one of a
\* bad catalogue: a seeded stream picks it at one position
TemplateFails(s) ==
    IF sourceType[s] # "cloudtrail" \/ catalogOk[s] THEN {FALSE}
    ELSE CASE rng[s] = "low" -> {Len(produced[s]) = 1}
           [] rng[s] = "high" -> {Len(produced[s]) = 3}
           [] OTHER -> BOOLEAN

\* the length of the serialised payload of a generated event
PayloadSizes == {700}

MakeEvent(s, i, now, p, region, size, ua, ip) ==
    [none |-> FALSE, src |-> s, seq |-> Len(produced[s]) + 1, actor |-> i,
     timestamp |-> FormatMillis(now), source |-> sourceType[s],
     tenant_id |-> TenantOf(s, p), region |-> region, size |-> size,
     user_agent |-> current_user_agent(p, ua), ip |-> current_source_ip(p, ip)]

(***************************************************************************)
(* next_event(): one iteration of its loop per step.                       *)
(***************************************************************************)
\* schedule.pop()? on an empty heap: next_event returns None
GenExhausted(s) ==
    /\ schedule[s] = {}
    /\ genRet' = [genRet EXCEPT ![s] = NoEvent]
    /\ UNCHANGED <<actors, schedule, produced>>

\* the popped actor is not available: it is pushed back at next_available_at
GenReschedule(s) ==
    /\ schedule[s] # {}
    /\ LET e == HeapMin(schedule[s])
           now == e[1]
           i == e[2]
           p == actors[s][i]
       IN  /\ now <= MaxTime
           /\ \E cooldown \in Drawn(s, CooldownDraws(p, now)) :
                LET q == is_available_profile(p, now, cooldown) IN
                /\ ~is_available_result(q, now)
                /\ NextAvailableReturns(q, now)
                /\ actors' = [actors EXCEPT ![s][i] = q]
                /\ schedule' = [schedule EXCEPT
                                  ![s] = (@ \ {e}) \cup {<<next_available_at(q, now), i>>}]
                /\ genRet' = [genRet EXCEPT ![s] = Continue]
                /\ UNCHANGED produced

\* the popped actor is not available and next_available_at does not return:
\* the call of next_event() never ends, the entry popped and not pushed
GenRescheduleHangs(s) ==
    /\ schedule[s] # {}
    /\ LET e == HeapMin(schedule[s])
           now == e[1]
           i == e[2]
           p == actors[s][i]
       IN  /\ now <= MaxTime
           /\ \E cooldown \in Drawn(s, CooldownDraws(p, now)) :
                LET q == is_available_profile(p, now, cooldown) IN
                /\ ~is_available_result(q, now)
                /\ ~NextAvailableReturns(q, now)
                /\ actors' = [actors EXCEPT ![s][i] = q]
                /\ schedule' = [schedule EXCEPT ![s] = @ \ {e}]
                /\ genRet' = [genRet EXCEPT ![s] = Hangs]
                /\ UNCHANGED produced

\* the popped actor is available: an event is built and the actor rescheduled
GenEmitWithin(s, bound) ==
    /\ schedule[s] # {}
    /\ Len(produced[s]) < bound
    /\ FALSE \in TemplateFails(s)
    /\ LET e == HeapMin(schedule[s])
           now == e[1]
           i == e[2]
           p == actors[s][i]
       IN  /\ now <= MaxTime
           /\ \E cooldown \in Drawn(s, CooldownDraws(p, now)) :
              LET a == is_available_profile(p, now, cooldown) IN
              /\ is_available_result(a, now)
              /\ \E minutes \in Drawn(s, MinutesDraws(a)), count \in Drawn(s, CountDraws(a)),
                    region \in RegionDrawn(s), interval \in Drawn(s, sample_interval),
                    size \in PayloadSizes,
                    ua \in StickyDrawn(s, a.seed.user_agents),
                    ip \in StickyDrawn(s, a.seed.source_ips) :
                LET b == [ensure_session(a, now, minutes, count, ua, ip)
                            EXCEPT !.last_event = Some(EventName(s, FALSE))]
                IN
                \E forget \in GenBool(s, ForgetDraws(b)) :
                LET q == consume_session(b, forget)
                    ev == MakeEvent(s, i, now, q, region, size, ua, ip)
                IN  /\ ScheduleAfterReturns(q, now, interval)
                    /\ actors' = [actors EXCEPT ![s][i] = q]
                    /\ schedule' = [schedule EXCEPT
                                      ![s] = (@ \ {e}) \cup {<<schedule_after(q, now, interval), i>>}]
                    /\ genRet' = [genRet EXCEPT ![s] = ev]
                    /\ produced' = [produced EXCEPT ![s] = Append(@, ev)]

GenEmit(s) == GenEmitWithin(s, MaxGen)

\* the popped actor is available and schedule_after does not return: the call
\* of next_event() never ends, the event built and not returned
GenEmitHangs(s) ==
    /\ schedule[s] # {}
    /\ LET e == HeapMin(schedule[s])
           now == e[1]
           i == e[2]
           p == actors[s][i]
       IN  /\ now <= MaxTime
           /\ \E cooldown \in Drawn(s, CooldownDraws(p, now)) :
              LET a == is_available_profile(p, now, cooldown) IN
              /\ is_available_result(a, now)
              /\ \E minutes \in Drawn(s, MinutesDraws(a)), count \in Drawn(s, CountDraws(a)),
                    interval \in Drawn(s, sample_interval),
                    ua \in StickyDrawn(s, a.seed.user_agents),
                    ip \in StickyDrawn(s, a.seed.source_ips) :
                LET b == [ensure_session(a, now, minutes, count, ua, ip)
                            EXCEPT !.last_event = Some(EventName(s, FALSE))]
                IN
                \E forget \in GenBool(s, ForgetDraws(b)) :
                LET q == consume_session(b, forget)
                IN  /\ ~ScheduleAfterReturns(q, now, interval)
                    /\ actors' = [actors EXCEPT ![s][i] = q]
                    /\ schedule' = [schedule EXCEPT ![s] = @ \ {e}]
                    /\ genRet' = [genRet EXCEPT ![s] = Hangs]
                    /\ UNCHANGED produced

\* CloudTrail only: build_cloudtrail_event fails (empty event name) and `.ok()?`
\* returns None after the pop and ensure_session, before the push
GenTemplateError(s) ==
    /\ schedule[s] # {}
    /\ TRUE \in TemplateFails(s)
    /\ LET e == HeapMin(schedule[s])
           now == e[1]
           i == e[2]
           p == actors[s][i]
       IN  /\ now <= MaxTime
           /\ \E cooldown \in Drawn(s, CooldownDraws(p, now)) :
              LET a == is_available_profile(p, now, cooldown) IN
              /\ is_available_result(a, now)
              /\ \E minutes \in Drawn(s, MinutesDraws(a)), count \in Drawn(s, CountDraws(a)),
                    ua \in StickyDrawn(s, a.seed.user_agents),
                    ip \in StickyDrawn(s, a.seed.source_ips) :
                /\ actors' = [actors EXCEPT
                                ![s][i] = [ensure_session(a, now, minutes, count, ua, ip)
                                             EXCEPT !.last_event = Some(EventName(s, TRUE))]]
                /\ schedule' = [schedule EXCEPT ![s] = @ \ {e}]
                /\ genRet' = [genRet EXCEPT ![s] = NoEvent]
                /\ UNCHANGED produced

\* build_schedule: every actor is pushed at schedule_from(next_available_at(start))
RECURSIVE build_schedule(_, _, _)
build_schedule(profiles, start_time, intervals) ==
    IF DOMAIN profiles = {} THEN {}
    ELSE LET i == CHOOSE j \in DOMAIN profiles : \A k \in DOMAIN profiles : j >= k
             base == next_available_at(profiles[i], start_time)
             rest == [k \in DOMAIN profiles \ {i} |-> profiles[k]]
         IN  build_schedule(rest, start_time, intervals)
                \cup {<<schedule_from(profiles[i], base, intervals[i]), i>>}

(***************************************************************************)
(* File sinks: JsonlWriter (formats/json.rs) and ParquetWriter             *)
(* (formats/parquet.rs).  A buffer is a sequence of tokens, a batch a      *)
(* sequence of rows; a file is a record of the output directory.           *)
(***************************************************************************)
MiB == 1024 * 1024

\* mutant: the rotation threshold is twice the configured one
target_size_bytes_doubled == target_size_mb * MiB * 2

target_size_bytes == target_size_mb * MiB

\* Option<Duration>: None when max_age_seconds is 0
max_age == IF max_age_seconds > 0 THEN max_age_seconds ELSE NoTime

Hdr == [t |-> "hdr"]            \* {"Records":[
Comma == [t |-> "comma"]        \* ,
Ftr == [t |-> "ftr"]            \* ]}
Rec(ev) == [t |-> "rec", ev |-> ev]

TokenBytes(tok) ==
    CASE tok.t = "hdr" -> 12
      [] tok.t = "comma" -> 1
      [] tok.t = "ftr" -> 2
      [] tok.t = "rec" -> tok.ev.size

RECURSIVE ByteLen(_)
ByteLen(buf) == IF buf = <<>> THEN 0 ELSE TokenBytes(Head(buf)) + ByteLen(Tail(buf))

\* file_context_from_event: the account and region a record is filed under
RegionKey(ev) == <<ev.tenant_id, ev.region>>

RegionBuffer == [current_size |-> 0, buffer |-> <<>>, first_event_at |-> NoTime,
                 record_count |-> 0]
RegionState == [current_size |-> 0, batch |-> <<>>, first_event_at |-> NoTime]

NewSink(kind) ==
    [kind |-> kind, regions |-> [k \in {} |-> RegionBuffer], pending |-> <<>>,
     stage |-> "idle", inflight |-> <<>>, file |-> 0, err |-> FALSE, closed |-> FALSE,
     accepted |-> <<>>]

\* HashMap::entry(key).or_insert_with(new)
Entry(regs, key, new) == IF key \in DOMAIN regs THEN regs[key] ELSE new
Insert(regs, key, r) == [k \in DOMAIN regs \cup {key} |-> IF k = key THEN r ELSE regs[k]]

append_record(region, ev) ==
    LET buf == region.buffer \o (IF region.record_count = 0 THEN <<Hdr>> ELSE <<Comma>>)
                             \o <<Rec(ev)>>
    IN  [region EXCEPT !.buffer = buf, !.record_count = @ + 1,
                       !.current_size = ByteLen(buf) + 2]

\* estimate_event_size: the lengths of the envelope strings (schema version,
\* timestamp, source at the least) plus the length of the payload
estimate_event_size(ev) == 2 + 24 + (IF ev.source = "cloudtrail" THEN 10 ELSE 8) + ev.size

\* a call whose regions to flush are `keys` goes on to flush_region of each of them
WithPending(k, keys) ==
    [k EXCEPT !.pending = keys, !.stage = IF keys = <<>> THEN "idle" ELSE "region"]

\* JsonlWriter::write_event, up to the call of flush_region
json_write_event(k, ev, now) ==
    LET key == RegionKey(ev)
        r0 == Entry(k.regions, key, RegionBuffer)
        r1 == IF r0.current_size = 0 THEN [r0 EXCEPT !.first_event_at = now] ELSE r0
        r2 == append_record(r1, ev)
    IN  WithPending([k EXCEPT !.regions = Insert(@, key, r2),
                              !.accepted = Append(@, ev)],
                    IF r2.current_size >= target_size_bytes THEN <<key>> ELSE <<>>)

\* ParquetWriter::write_event, up to the call of flush_region
parquet_write_event(k, ev, now) ==
    LET key == RegionKey(ev)
        r0 == Entry(k.regions, key, RegionState)
        r1 == IF r0.current_size = 0 THEN [r0 EXCEPT !.first_event_at = now] ELSE r0
        r2 == [r1 EXCEPT !.batch = Append(@, ev),
                         !.current_size = @ + estimate_event_size(ev)]
    IN  WithPending([k EXCEPT !.regions = Insert(@, key, r2),
                              !.accepted = Append(@, ev)],
                    IF r2.current_size >= target_size_bytes THEN <<key>> ELSE <<>>)

\* mutant: flush() writes every region that holds data, whatever its age
FlushDue_any_age(r, now) == r.current_size > 0

\* flush(): the regions that are old enough, or all of them without a max age
FlushDue(r, now) ==
    /\ r.current_size > 0
    /\ max_age # NoTime => (r.first_event_at # NoTime /\ now - r.first_event_at >= max_age)

\* flush(): a region that holds data but no first_event_at gets one and is skipped
FlushTouch(r, now) ==
    IF r.current_size > 0 /\ max_age # NoTime /\ r.first_event_at = NoTime
    THEN [r EXCEPT !.first_event_at = now] ELSE r

\* JsonlWriter::close: every region that holds data
CloseDue(r) == r.current_size > 0

\* the orders in which a HashMap may iterate over a set of keys
Orders(keys) ==
    { q \in [1..Cardinality(keys) -> keys] :
        \A i, j \in 1..Cardinality(keys) : i # j => q[i] # q[j] }

DueKeys(k, now) ==
    { key \in DOMAIN k.regions : FlushDue(k.regions[key], now) }

\* the keys a close() flushes: JsonlWriter flushes all, ParquetWriter calls flush()
CloseKeys(k, now) ==
    IF k.kind = "json"
    THEN { key \in DOMAIN k.regions : CloseDue(k.regions[key]) }
    ELSE DueKeys(k, now)

Touched(k, now) ==
    [k EXCEPT !.regions = [key \in DOMAIN k.regions |-> FlushTouch(k.regions[key], now)]]

\* mutant: the record count survives the flush
RegionAfterFlush_keeps_count(r) ==
    [r EXCEPT !.buffer = <<>>, !.current_size = 0, !.first_event_at = NoTime]

\* json.rs flush_region: the buffer after the file has been written
RegionAfterFlush(r) ==
    [r EXCEPT !.buffer = <<>>, !.current_size = 0, !.first_event_at = NoTime,
              !.record_count = 0]

\* mutant: the batch is written under its final name
TempExt_final == "parquet"

\* parquet.rs flush_region: the extension of the file the batch is written to
TempExt == "parquet.tmp"

NewFile(w, key, ext, content, sealed) ==
    [shard |-> w, key |-> key, ext |-> ext, content |-> content, sealed |-> sealed]

\* the call is over with the last region of `pending`
Popped(k) ==
    [k EXCEPT !.pending = Tail(@),
              !.stage = IF Tail(k.pending) = <<>> THEN "idle" ELSE "region"]

SinkReady(w) == sink[w].stage = "idle" /\ ~sink[w].err /\ ~sink[w].closed

\* ---- the calls of the EventWriter trait
SinkWrite(w, ev) ==
    /\ SinkReady(w)
    /\ sink' = [sink EXCEPT ![w] = IF @.kind = "json"
                                   THEN json_write_event(@, ev, wall)
                                   ELSE parquet_write_event(@, ev, wall)]
    /\ UNCHANGED <<wall, fs>>

SinkFlush(w) ==
    /\ SinkReady(w)
    /\ \E order \in Orders(DueKeys(sink[w], wall)) :
          sink' = [sink EXCEPT ![w] = WithPending(Touched(@, wall), order)]
    /\ UNCHANGED <<wall, fs>>

SinkClose(w) ==
    /\ SinkReady(w)
    /\ \E order \in Orders(CloseKeys(sink[w], wall)) :
          sink' = [sink EXCEPT ![w] =
                      [WithPending(IF @.kind = "json" THEN @ ELSE Touched(@, wall), order)
                          EXCEPT !.closed = TRUE]]
    /\ UNCHANGED <<wall, fs>>

\* ---- flush_region, one step of it: the sink and the files it leaves
Step(k, files) == [k |-> k, fs |-> files]

\* mutant: the flush of one region resets every region of the sink
json_flush_region_resets_all(k, files, w) ==
    LET key == Head(k.pending)
        r == k.regions[key]
    IN  IF r.current_size = 0
        THEN Step(Popped(k), files)
        ELSE Step(Popped([k EXCEPT !.regions = [o \in DOMAIN @ |-> RegionAfterFlush(@[o])]]),
                  Append(files, NewFile(w, key, "json", r.buffer \o <<Ftr>>, TRUE)))

\* JSON: the file is created and written, the buffer reset
json_flush_region(k, files, w) ==
    LET key == Head(k.pending)
        r == k.regions[key]
    IN  IF r.current_size = 0
        THEN Step(Popped(k), files)
        ELSE Step(Popped([k EXCEPT !.regions[key] = RegionAfterFlush(r)]),
                  Append(files, NewFile(w, key, "json", r.buffer \o <<Ftr>>, TRUE)))

\* Parquet: batch.finish() and open_writer(.., "parquet.tmp", ..)
parquet_create(k, files, w) ==
    LET key == Head(k.pending)
        r == k.regions[key]
    IN  IF Len(r.batch) = 0
        THEN Step(Popped(k), files)
        ELSE Step([k EXCEPT !.regions[key].batch = <<>>, !.inflight = r.batch,
                            !.file = Len(files) + 1, !.stage = "created"],
                  Append(files, NewFile(w, key, TempExt, <<>>, FALSE)))

\* writer.write(&batch)
parquet_write(k, files) ==
    Step([k EXCEPT !.stage = "written"], [files EXCEPT ![k.file].content = k.inflight])

\* writer.close(): the footer is written and the file closed
parquet_close(k, files) ==
    Step([k EXCEPT !.stage = "closed"], [files EXCEPT ![k.file].sealed = TRUE])

\* fs::rename(temp_path, final_path), then the region is reset
parquet_rename(k, files) ==
    LET key == Head(k.pending) IN
    Step(Popped([k EXCEPT !.regions[key].current_size = 0,
                          !.regions[key].first_event_at = NoTime,
                          !.inflight = <<>>, !.file = 0]),
         [files EXCEPT ![k.file].ext = "parquet"])

flush_region_step(k, files, w) ==
    CASE k.stage = "region" /\ k.kind = "json" -> json_flush_region(k, files, w)
      [] k.stage = "region" /\ k.kind = "parquet" -> parquet_create(k, files, w)
      [] k.stage = "created" -> parquet_write(k, files)
      [] k.stage = "written" -> parquet_close(k, files)
      [] k.stage = "closed" -> parquet_rename(k, files)

\* an I/O operation of flush_region fails: `?` returns the error from the call.
\* A JSON file may have been created and written in part; a Parquet batch that
\* was finished is gone, and its temporary file stays as it is.
io_error(k, files, w) ==
    LET key == Head(k.pending)
        r == k.regions[key]
        failed == [k EXCEPT !.err = TRUE, !.stage = "idle", !.pending = <<>>,
                            !.regions[key] = IF k.kind = "parquet"
                                             THEN [r EXCEPT !.batch = <<>>] ELSE r]
    IN  {Step(failed, files)} \cup
        (IF k.kind = "json" /\ r.current_size > 0
         THEN {Step(failed, Append(files, NewFile(w, key, "json", r.buffer, FALSE)))}
         ELSE {})

TakeStep(w, step) ==
    /\ sink' = [sink EXCEPT ![w] = step.k]
    /\ fs' = step.fs
    /\ UNCHANGED wall

JsonFlushRegion(w) ==
    /\ sink[w].kind = "json" /\ sink[w].stage = "region"
    /\ TakeStep(w, flush_region_step(sink[w], fs, w))

ParquetCreate(w) ==
    /\ sink[w].kind = "parquet" /\ sink[w].stage = "region"
    /\ TakeStep(w, flush_region_step(sink[w], fs, w))

ParquetWrite(w) ==
    /\ sink[w].stage = "created"
    /\ TakeStep(w, flush_region_step(sink[w], fs, w))

ParquetClose(w) ==
    /\ sink[w].stage = "written"
    /\ TakeStep(w, flush_region_step(sink[w], fs, w))

ParquetRename(w) ==
    /\ sink[w].stage = "closed"
    /\ TakeStep(w, flush_region_step(sink[w], fs, w))

SinkIoError(w) ==
    /\ sink[w].stage # "idle"
    /\ \E step \in io_error(sink[w], fs, w) : TakeStep(w, step)

MaxWall == 1        \* seconds of wall-clock time

\* the wall clock advances by one second
Tick ==
    /\ wall' = wall + 1
    /\ UNCHANGED <<sink, fs>>

IdleSinks ==
    /\ wall = 0
    /\ sink = [w \in ShardIds |-> NewSink(sinkKind[w[1]])]
    /\ fs = <<>>

(***************************************************************************)
(* The run of `gen` (main.rs): the dispatcher thread, the bounded queues   *)
(* and the writer shards.  A shard handles one command in one step; the    *)
(* dispatcher is a sequential process whose position is pc.                *)
(***************************************************************************)
QueueDepth == 2     \* capacity of a shard's sync_channel in the model

NoLimit == 0 - 1    \* Option::None of max_events, max_seconds

LiveShards == { w \in ShardIds : w[2] < writer_shards }

\* the senders in the order the dispatcher walks them: sources, then shards
ShardSeq ==
    [n \in 1..(Cardinality(Sources) * writer_shards) |->
        <<((n - 1) \div writer_shards) + 1, (n - 1) % writer_shards>>]

EventCmd(ev) == [cmd |-> "Event", ev |-> ev]
FlushCmd == [cmd |-> "Flush", ev |-> NoEvent]
\* mutant: the command sent after the loop is a Flush
CloseCmd_flush == [cmd |-> "Flush", ev |-> NoEvent]

CloseCmd == [cmd |-> "Close", ev |-> NoEvent]

\* mutant: a send on a queue that holds a command discards
Enqueue_lossy(q, msg) == IF Len(q) >= 1 THEN q ELSE Append(q, msg)

\* SyncSender::send, once there is room
Enqueue(q, msg) == Append(q, msg)

\* mutant: the newest command is received first
recv_position_last(q) == Len(q)

\* Receiver::recv: the oldest command of the queue
recv_position(q) == 1

Received(q) == q[recv_position(q)]
AfterRecv(q) == [n \in 1..(Len(q) - 1) |-> IF n < recv_position(q) THEN q[n] ELSE q[n + 1]]

\* DefaultHasher has fixed keys: one fixed function of the three strings hashed,
\* here a linear one whose coefficients are hashSalt
StrCode(str) ==
    CASE str \in {"cloudtrail", "111111111111", "us-east-1"} -> 1
      [] str \in {"entra_id", "222222222222", "eu-west-1"} -> 2
      [] OTHER -> 3
DefaultHasher(source, account_id, region) ==
    hashSalt[1] * StrCode(source) + hashSalt[2] * StrCode(account_id)
        + hashSalt[3] * StrCode(region)

\* mutant: the shard is chosen round robin
writer_index_round_robin(ev, shards) == ev.seq % shards

writer_index_for_event(ev, shards) ==
    IF shards <= 1 THEN 0
    ELSE DefaultHasher(ev.source, ev.tenant_id, ev.region) % shards

WithTime == { s \in Sources : next_event_time[s] # NoTime }

\* mutant: the sources take turns, whatever their peeked times
next_source_index_round_robin ==
    IF WithTime = {} THEN 0
    ELSE IF WithTime \ {idx} # {} THEN CHOOSE s \in WithTime \ {idx} : TRUE
    ELSE CHOOSE s \in WithTime : TRUE

\* next_source_index: the first source of the least peeked time; 0 is None
next_source_index ==
    IF WithTime = {} THEN 0
    ELSE CHOOSE s \in WithTime : \A t \in WithTime :
            \/ next_event_time[s] < next_event_time[t]
            \/ next_event_time[s] = next_event_time[t] /\ s <= t

\* ---- sink calls run to their end
write_event(k, ev, now) ==
    IF k.kind = "json" THEN json_write_event(k, ev, now) ELSE parquet_write_event(k, ev, now)
FlushCalls(k, now) ==
    { WithPending(Touched(k, now), order) : order \in Orders(DueKeys(k, now)) }
CloseCalls(k, now) ==
    { [WithPending(IF k.kind = "json" THEN k ELSE Touched(k, now), order)
          EXCEPT !.closed = TRUE] : order \in Orders(CloseKeys(k, now)) }

RECURSIVE Completed(_, _, _)
Completed(k, files, w) ==
    IF k.stage = "idle" THEN Step(k, files)
    ELSE LET n == flush_region_step(k, files, w) IN Completed(n.k, n.fs, w)

\* the points of a call at which an I/O operation is about to be made
RECURSIVE Stages(_, _, _)
Stages(k, files, w) ==
    IF k.stage = "idle" THEN {}
    ELSE LET n == flush_region_step(k, files, w) IN {Step(k, files)} \cup Stages(n.k, n.fs, w)

\* the calls the command at the head of the queue leads to
CallsOf(w) ==
    LET msg == Received(queue[w]) IN
    CASE msg.cmd = "Event" -> {write_event(sink[w], msg.ev, wall)}
      [] msg.cmd = "Flush" -> FlushCalls(sink[w], wall)
      [] msg.cmd = "Close" -> CloseCalls(sink[w], wall)

WorkerCanRecv(w) ==
    /\ w \in LiveShards
    /\ exit = "running"
    /\ worker[w] = "running"
    /\ queue[w] # <<>>

workerFrame ==
    UNCHANGED <<libVars, cfgVars, genVars, outCfgVars, runCfgVars, wall, pc, idx, loop_start, held,
                event_time, next_event, next_event_time, total_dispatched, next_flush,
                cursor, sent, exit>>

\* the bytes write_event returns: the length of the record, or its estimate
WrittenBytes(k, ev) == IF k.kind = "json" THEN ev.size ELSE estimate_event_size(ev)

\* mutant: the event counter takes the bytes and the byte counter the count
counted_swapped(c, bytes) == [events |-> c.events + bytes, bytes |-> c.bytes + 1]

\* events_counter.fetch_add(1), bytes_counter.fetch_add(bytes)
counted(c, bytes) == [events |-> c.events + 1, bytes |-> c.bytes + bytes]

\* WriterCommand::Event: writer.write_event(&event)?, then the counters
WorkerEvent(w) ==
    /\ WorkerCanRecv(w)
    /\ Received(queue[w]).cmd = "Event"
    /\ \E call \in CallsOf(w) :
          LET done == Completed(call, fs, w) IN
          /\ sink' = [sink EXCEPT ![w] = done.k]
          /\ fs' = done.fs
    /\ counters' = counted(counters, WrittenBytes(sink[w], Received(queue[w]).ev))
    /\ queue' = [queue EXCEPT ![w] = AfterRecv(@)]
    /\ UNCHANGED worker
    /\ workerFrame

\* WriterCommand::Flush: writer.flush()?
WorkerFlush(w) ==
    /\ WorkerCanRecv(w)
    /\ Received(queue[w]).cmd = "Flush"
    /\ \E call \in CallsOf(w) :
          LET done == Completed(call, fs, w) IN
          /\ sink' = [sink EXCEPT ![w] = done.k]
          /\ fs' = done.fs
    /\ queue' = [queue EXCEPT ![w] = AfterRecv(@)]
    /\ UNCHANGED <<worker, counters>>
    /\ workerFrame

\* WriterCommand::Close: writer.close()?; break
WorkerClose(w) ==
    /\ WorkerCanRecv(w)
    /\ Received(queue[w]).cmd = "Close"
    /\ \E call \in CallsOf(w) :
          LET done == Completed(call, fs, w) IN
          /\ sink' = [sink EXCEPT ![w] = done.k]
          /\ fs' = done.fs
    /\ queue' = [queue EXCEPT ![w] = AfterRecv(@)]
    /\ worker' = [worker EXCEPT ![w] = "done"]
    /\ UNCHANGED counters
    /\ workerFrame

\* a sink call returns Err: the thread returns it, the receiver is dropped
WorkerIoError(w) ==
    /\ faulty
    /\ WorkerCanRecv(w)
    /\ \E call \in CallsOf(w) : \E stage \in Stages(call, fs, w) :
          \E step \in io_error(stage.k, stage.fs, w) :
             /\ sink' = [sink EXCEPT ![w] = step.k]
             /\ fs' = step.fs
    /\ queue' = [queue EXCEPT ![w] = <<>>]
    /\ worker' = [worker EXCEPT ![w] = "failed"]
    /\ UNCHANGED counters
    /\ workerFrame

\* ---- the dispatcher
dispFrame == UNCHANGED <<libVars, cfgVars, outCfgVars, runCfgVars, sinkVars>>

LastSource == Cardinality(Sources)

\* fill_next_event, once next_event() has returned; then the rest of the iteration
AfterFill(s) ==
    LET ret == genRet'[s] IN
    IF ret.none /\ ret.more
    THEN UNCHANGED <<pc, idx, next_event, next_event_time, next_flush, cursor>>
    ELSE /\ next_event' = [next_event EXCEPT ![s] = ret]
         /\ next_event_time' = [next_event_time EXCEPT ![s] =
               IF ret.none
               THEN (IF pc = "startup" THEN startTime ELSE event_time)
               ELSE parse_event_time(ret.timestamp)]
         /\ IF pc = "startup"
            THEN IF s < LastSource
                 THEN /\ idx' = s + 1
                      /\ UNCHANGED <<pc, next_flush, cursor>>
                 ELSE /\ pc' = "loop"
                      /\ next_flush' = wall + 1
                      /\ UNCHANGED <<idx, cursor>>
            ELSE IF loop_start >= next_flush
                 THEN /\ pc' = "flush"
                      /\ cursor' = 1
                      /\ next_flush' = loop_start + 1
                      /\ UNCHANGED idx
                 ELSE /\ pc' = "loop"
                      /\ UNCHANGED <<idx, next_flush, cursor>>

fillFrame ==
    /\ UNCHANGED <<loop_start, held, event_time, total_dispatched, queue, worker, counters, sent, exit>>
    /\ dispFrame

Filling == pc \in {"startup", "fill"} /\ exit = "running"

FillExhausted == Filling /\ GenExhausted(idx) /\ AfterFill(idx) /\ fillFrame
FillReschedule == Filling /\ GenReschedule(idx) /\ AfterFill(idx) /\ fillFrame
FillEmit == Filling /\ GenEmit(idx) /\ AfterFill(idx) /\ fillFrame
FillTemplateError == Filling /\ GenTemplateError(idx) /\ AfterFill(idx) /\ fillFrame

\* the top of the loop: the caps, the choice of the source, the take of its peek
\* loop_start.duration_since(start_time) >= limit
max_duration_reached(now) == max_seconds # NoLimit /\ now >= max_seconds

\* mutant: one event more
max_events_reached_late == max_events # NoLimit /\ total_dispatched > max_events

\* total_dispatched >= max
max_events_reached == max_events # NoLimit /\ total_dispatched >= max_events

LoopTop ==
    /\ pc = "loop" /\ exit = "running"
    /\ loop_start' = wall
    /\ LET i == next_source_index IN
       IF \/ max_duration_reached(wall)
          \/ max_events_reached
          \/ i = 0
       THEN /\ pc' = "close"
            /\ cursor' = 1
            /\ UNCHANGED <<idx, held, event_time, next_event, next_event_time>>
       ELSE IF next_event[i].none
            THEN /\ next_event_time' = [next_event_time EXCEPT ![i] = NoTime]
                 /\ UNCHANGED <<pc, idx, held, event_time, next_event, cursor>>
            ELSE /\ pc' = "send"
                 /\ idx' = i
                 /\ held' = next_event[i]
                 /\ event_time' = next_event_time[i]
                 /\ next_event' = [next_event EXCEPT ![i] = NoEvent]
                 /\ UNCHANGED <<next_event_time, cursor>>
    /\ UNCHANGED <<genVars, total_dispatched, next_flush, queue, worker, counters, sent, exit>>
    /\ dispFrame

\* throttle_to_sim_time(..) and dispatch_event(event, ..)?: the thread sleeps, and the
\* send blocks while the queue is full; wall-clock time passes meanwhile (RunTick)
Send ==
    /\ pc = "send" /\ exit = "running"
    /\ LET w == <<idx, writer_index_for_event(held, writer_shards)>> IN
       IF worker[w] # "running"
       THEN /\ exit' = "send_err"
            /\ pc' = "exit"
            /\ UNCHANGED <<queue, sent, total_dispatched>>
       ELSE /\ Len(queue[w]) < QueueDepth
            /\ queue' = [queue EXCEPT ![w] = Enqueue(@, EventCmd(held))]
            /\ sent' = Append(sent, [ev |-> held, shard |-> w, at |-> wall])
            /\ total_dispatched' = total_dispatched + 1
            /\ pc' = "fill"
            /\ UNCHANGED exit
    /\ UNCHANGED <<genVars, idx, loop_start, held, event_time, next_event, next_event_time,
                   next_flush, cursor, worker, counters>>
    /\ dispFrame

\* the walk over the senders of a command whose send error is ignored
SendToAll(at, msg, then) ==
    /\ pc = at /\ exit = "running"
    /\ LET w == ShardSeq[cursor] IN
       IF worker[w] # "running"
       THEN UNCHANGED queue
       ELSE /\ Len(queue[w]) < QueueDepth
            /\ queue' = [queue EXCEPT ![w] = Enqueue(@, msg)]
    /\ IF cursor < Len(ShardSeq)
       THEN cursor' = cursor + 1 /\ UNCHANGED pc
       ELSE cursor' = 1 /\ pc' = then
    /\ UNCHANGED <<genVars, idx, loop_start, held, event_time, next_event, next_event_time,
                   total_dispatched, next_flush, worker, counters, sent, exit>>
    /\ dispFrame

\* let _ = tx.send(WriterCommand::Flush), every second
SendFlush == SendToAll("flush", FlushCmd, "loop")

\* let _ = tx.send(WriterCommand::Close), after the loop
SendClose == SendToAll("close", CloseCmd, "join")

\* handle.join(), in the order of the handles; the first Err is returned
Join ==
    /\ pc = "join" /\ exit = "running"
    /\ LET w == ShardSeq[cursor] IN
       /\ worker[w] # "running"
       /\ IF worker[w] = "failed"
          THEN exit' = "worker_err" /\ pc' = "exit" /\ UNCHANGED cursor
          ELSE IF cursor < Len(ShardSeq)
               THEN cursor' = cursor + 1 /\ UNCHANGED <<pc, exit>>
               ELSE exit' = "ok" /\ pc' = "exit" /\ UNCHANGED cursor
    /\ UNCHANGED <<genVars, idx, loop_start, held, event_time, next_event, next_event_time,
                   total_dispatched, next_flush, queue, worker,
                   counters, sent>>
    /\ dispFrame

\* time passes while the threads run, sleep or block
RunTickWithin(bound) ==
    /\ exit = "running"
    /\ wall < bound
    /\ Tick
    /\ UNCHANGED <<libVars, cfgVars, genVars, outCfgVars, runCfgVars, runVars>>

RunTick == RunTickWithin(MaxWall)

MaxBlocked == 2     \* seconds of wall-clock time in a run whose sends take long
RunTickBlocked == RunTickWithin(MaxBlocked)

IdleRun ==
    /\ writer_shards = 1
    /\ hashSalt = <<0, 0, 0>>
    /\ max_events = NoLimit
    /\ max_seconds = NoLimit
    /\ faulty = FALSE
    /\ pc = "exit"
    /\ idx = 1
    /\ loop_start = 0
    /\ held = NoEvent
    /\ event_time = NoTime
    /\ next_event = [s \in Sources |-> NoEvent]
    /\ next_event_time = [s \in Sources |-> NoTime]
    /\ total_dispatched = 0
    /\ next_flush = 0
    /\ cursor = 1
    /\ queue = [w \in ShardIds |-> <<>>]
    /\ worker = [w \in ShardIds |-> "running"]
    /\ counters = NoWrites
    /\ sent = <<>>
    /\ exit = "ok"

(***************************************************************************)
(* SpecGen: one generator, called again and again.                         *)
(***************************************************************************)
StartChoices == {2 * DAY, 2 * DAY + 1}     \* Saturday 1970-01-03T00:00:00Z, exactly and half a millisecond later

Populations ==
    { <<HumanDay, ServiceAlways>>, <<HumanNight, HumanDay>>, <<ServiceWrap, HumanLate>> }

SourceKinds ==
    { [type |-> "cloudtrail", ok |-> TRUE], [type |-> "cloudtrail", ok |-> FALSE],
      [type |-> "entra_id", ok |-> TRUE] }

NoActors == [i \in {} |-> from_seed(HumanDay)]

InitGenOf(s, seeds, intervals) ==
    LET profiles == [i \in DOMAIN seeds |-> from_seed(seeds[i])] IN
    /\ actors = [t \in Sources |-> IF t = s THEN profiles ELSE NoActors]
    /\ schedule = [t \in Sources |->
                     IF t = s THEN build_schedule(profiles, startTime, intervals) ELSE {}]

InitGen ==
    /\ startTime \in StartChoices
    /\ \E kind \in SourceKinds :
          /\ sourceType = [s \in Sources |-> IF s = 1 THEN kind.type ELSE "entra_id"]
          /\ catalogOk = [s \in Sources |-> IF s = 1 THEN kind.ok ELSE TRUE]
    /\ regions = [s \in Sources |-> {"us-east-1"}]
    /\ rng = [s \in Sources |-> "any"]
    /\ \E seeds \in Populations, intervals \in [1..2 -> sample_interval] :
          InitGenOf(1, seeds, intervals)
    /\ genRet = [s \in Sources |-> Continue]
    /\ produced = [s \in Sources |-> <<>>]
    /\ target_size_mb = 1
    /\ max_age_seconds = 0
    /\ sinkKind = [s \in Sources |-> "json"]
    /\ IdleSinks
    /\ IdleRun
    /\ IdleLib

\* the caller of SpecGen calls next_event() of source 1 again and again
CallExhausted == GenExhausted(1) /\ UNCHANGED <<libVars, cfgVars, outCfgVars, sinkVars, runCfgVars, runVars>>
CallReschedule == GenReschedule(1) /\ UNCHANGED <<libVars, cfgVars, outCfgVars, sinkVars, runCfgVars, runVars>>
CallEmit == GenEmit(1) /\ UNCHANGED <<libVars, cfgVars, outCfgVars, sinkVars, runCfgVars, runVars>>
CallTemplateError == GenTemplateError(1) /\ UNCHANGED <<libVars, cfgVars, outCfgVars, sinkVars, runCfgVars, runVars>>

NextGen == CallExhausted \/ CallReschedule \/ CallEmit \/ CallTemplateError

SpecGen == InitGen /\ [][NextGen]_vars

\* The generator of a population of one actor, called until it has returned
\* MaxSessionEvents events: long enough for an actor to use up a session.
InitSession ==
    /\ startTime \in StartChoices
    /\ \E type \in {"cloudtrail", "entra_id"} : sourceType = [s \in Sources |-> type]
    /\ catalogOk = [s \in Sources |-> TRUE]
    /\ regions = [s \in Sources |-> {"us-east-1"}]
    /\ rng = [s \in Sources |-> "any"]
    /\ \E seed \in {HumanRoaming, ServiceRoaming}, intervals \in [1..1 -> sample_interval] :
          InitGenOf(1, <<seed>>, intervals)
    /\ genRet = [s \in Sources |-> Continue]
    /\ produced = [s \in Sources |-> <<>>]
    /\ target_size_mb = 1
    /\ max_age_seconds = 0
    /\ sinkKind = [s \in Sources |-> "json"]
    /\ IdleSinks
    /\ IdleRun
    /\ IdleLib

SessionReschedule == GenReschedule(1) /\ UNCHANGED <<libVars, cfgVars, outCfgVars, sinkVars, runCfgVars, runVars>>
SessionEmit ==
    /\ GenEmitWithin(1, MaxSessionEvents)
    /\ UNCHANGED <<libVars, cfgVars, outCfgVars, sinkVars, runCfgVars, runVars>>

NextSession == SessionReschedule \/ SessionEmit

SpecSession == InitSession /\ [][NextSession]_vars

\* The Entra ID generator of a population read from a file of any origin,
\* called again and again: the file may store an active_start_hour of 24.
LoadedLate ==     \* ServiceWrap as read from a file that stores active_start_hour = 24
    [ServiceWrap EXCEPT !.active_start_hour = 24]

LoadedPopulations ==
    { <<ServiceWrap, LoadedLate>>, <<HumanDay, LoadedLate>>, <<LoadedLate, HumanLate>> }

LoadedStarts == {2 * DAY + 15 * HOUR, 2 * DAY + 15 * HOUR + 1}    \* Saturday 15:00 UTC

\* from_config has returned: build_schedule has pushed every actor
InitLoaded ==
    /\ startTime \in LoadedStarts
    /\ sourceType = [s \in Sources |-> "entra_id"]
    /\ catalogOk = [s \in Sources |-> TRUE]
    /\ regions = [s \in Sources |-> {"us-east-1"}]
    /\ rng = [s \in Sources |-> "any"]
    /\ \E seeds \in LoadedPopulations, intervals \in [1..2 -> sample_interval] :
          /\ \A i \in DOMAIN seeds :
                LET p == from_seed(seeds[i]) IN
                /\ NextAvailableReturns(p, startTime)
                /\ NextAvailableReturns(p, next_available_at(p, startTime) + intervals[i])
          /\ InitGenOf(1, seeds, intervals)
    /\ genRet = [s \in Sources |-> Continue]
    /\ produced = [s \in Sources |-> <<>>]
    /\ target_size_mb = 1
    /\ max_age_seconds = 0
    /\ sinkKind = [s \in Sources |-> "json"]
    /\ IdleSinks
    /\ IdleRun
    /\ IdleLib

\* a call that does not return is the last one
LoadedReschedule ==
    /\ genRet[1] # Hangs
    /\ GenReschedule(1)
    /\ UNCHANGED <<libVars, cfgVars, outCfgVars, sinkVars, runCfgVars, runVars>>
LoadedEmit ==
    /\ genRet[1] # Hangs
    /\ GenEmit(1)
    /\ UNCHANGED <<libVars, cfgVars, outCfgVars, sinkVars, runCfgVars, runVars>>
LoadedRescheduleHangs ==
    /\ genRet[1] # Hangs
    /\ GenRescheduleHangs(1)
    /\ UNCHANGED <<libVars, cfgVars, outCfgVars, sinkVars, runCfgVars, runVars>>
LoadedEmitHangs ==
    /\ genRet[1] # Hangs
    /\ GenEmitHangs(1)
    /\ UNCHANGED <<libVars, cfgVars, outCfgVars, sinkVars, runCfgVars, runVars>>

NextLoaded == LoadedReschedule \/ LoadedEmit \/ LoadedRescheduleHangs \/ LoadedEmitHangs

SpecLoaded == InitLoaded /\ [][NextLoaded]_vars

(***************************************************************************)
(* Claims about one source generator (SpecGen).                            *)
(***************************************************************************)
EventsOf(s) == { produced[s][n] : n \in 1..Len(produced[s]) }
SeedOf(ev) == actors[ev.src][ev.actor].seed

\* C3: within one source generator the events next_event() returns have
\* non-decreasing timestamps: timestamp[i+1] >= timestamp[i] for every pair of
\* consecutive events, whatever the population, the draws, the session starts
\* and ends, the cooldowns and the active-window reschedules.
C3_NonDecreasingTimestamps ==
    \A s \in Sources : \A n \in 1..(Len(produced[s]) - 1) :
        produced[s][n + 1].timestamp >= produced[s][n].timestamp

\* two events a few minutes apart, then one more than a day later (the actor
\* left its active window and was rescheduled across the weekend)
C3_Witness ==
    /\ Len(produced[1]) >= 3
    /\ produced[1][2].timestamp > produced[1][1].timestamp
    /\ produced[1][3].timestamp > produced[1][2].timestamp + 86400000

\* the active window of the claim, stated on the timestamp of an event
LocalOfEvent(ev) == ev.timestamp * MS + SeedOf(ev).timezone_offset * HOUR
LocalHourOfEvent(ev) == (LocalOfEvent(ev) % DAY) \div HOUR
LocalDateOfEvent(ev) == LocalOfEvent(ev) \div DAY
InClaimedWindow(ev) ==
    \E k \in 0..(SeedOf(ev).active_hours - 1) :
        LocalHourOfEvent(ev) = (SeedOf(ev).active_start_hour + k) % 24
OnLocalWeekend(ev) == number_from_monday(LocalDateOfEvent(ev)) \in {6, 7}
WindowRespected(ev) ==
    /\ InClaimedWindow(ev)
    /\ ~SeedOf(ev).weekend_active => ~OnLocalWeekend(ev)

\* the first Monday after the local date on which the run starts for the seed
LocalStartDate(seed) == (startTime + seed.timezone_offset * HOUR) \div DAY
NextLocalMonday(seed) ==
    CHOOSE d \in (LocalStartDate(seed) + 1)..(LocalStartDate(seed) + 7) :
        number_from_monday(d) = 1
RunStartsOnSaturdayUTC == number_from_monday(startTime \div DAY) = 6
AllWeekdayOnly(s) == \A i \in DOMAIN actors[s] : ~actors[s][i].seed.weekend_active

\* C10 (as stated): every event lies in its actor's local active window, none on a
\* local weekend when weekend_active is false, and a run that starts on a Saturday
\* (UTC, as in scenario S2) with weekend_active = false for all actors emits no
\* event before the next local Monday.
C10_Original ==
    \A s \in Sources : \A ev \in EventsOf(s) :
        /\ WindowRespected(ev)
        /\ (RunStartsOnSaturdayUTC /\ AllWeekdayOnly(s))
               => LocalDateOfEvent(ev) >= NextLocalMonday(SeedOf(ev))

\* C10 (amended): every event lies in its actor's local active window, none on a
\* local weekend when weekend_active is false, and an actor with weekend_active =
\* false for which the run starts on a Saturday or Sunday of its own local time
\* emits no event before its next local Monday.
C10_ActiveWindow ==
    \A s \in Sources : \A ev \in EventsOf(s) :
        /\ WindowRespected(ev)
        /\ (~SeedOf(ev).weekend_active /\ is_weekend_date(LocalStartDate(SeedOf(ev))))
               => LocalDateOfEvent(ev) >= NextLocalMonday(SeedOf(ev))

\* an actor that must skip the weekend it starts in has emitted, and so has one
\* whose window wraps midnight
C10_Witness ==
    \E ev \in EventsOf(1) :
        /\ ~SeedOf(ev).weekend_active
        /\ is_weekend_date(LocalStartDate(SeedOf(ev)))
        /\ SeedOf(ev).active_start_hour + SeedOf(ev).active_hours > 24

(***************************************************************************)
(* SpecSink: one sink, driven by any interleaving of write_event, flush    *)
(* and close, while the wall clock advances.                               *)
(***************************************************************************)
MaxWrites == 3      \* calls of write_event
DEFAULT_BATCH_SIZE == 2     \* rows of a Parquet batch in the model (1024 in the code)

RecordSizes == {2, 1048561}             \* bytes of one serialised record
SizeChoices == {0, 1}                   \* target_size_mb
AgeChoices == {0, 1}                    \* max_age_seconds
TheSink == <<1, 0>>

SinkEvents ==
    { [none |-> FALSE, src |-> 1, seq |-> Len(sink[TheSink].accepted) + 1, actor |-> 0,
       timestamp |-> 0, source |-> "cloudtrail", tenant_id |-> "111111111111",
       region |-> region, size |-> size] : region \in Regions, size \in RecordSizes }

IdleGenerators ==
    /\ startTime = 2 * DAY
    /\ sourceType = [s \in Sources |-> "cloudtrail"]
    /\ catalogOk = [s \in Sources |-> TRUE]
    /\ regions = [s \in Sources |-> Regions]
    /\ rng = [s \in Sources |-> "any"]
    /\ actors = [s \in Sources |-> NoActors]
    /\ schedule = [s \in Sources |-> {}]
    /\ genRet = [s \in Sources |-> Continue]
    /\ produced = [s \in Sources |-> <<>>]

InitSink ==
    /\ IdleGenerators
    /\ target_size_mb \in SizeChoices
    /\ max_age_seconds \in AgeChoices
    /\ \E kind \in {"json", "parquet"} : sinkKind = [s \in Sources |-> kind]
    /\ IdleSinks
    /\ IdleRun
    /\ IdleLib

SinkFrame == UNCHANGED <<libVars, cfgVars, genVars, outCfgVars, runCfgVars, runVars>>

DoWrite ==
    /\ Len(sink[TheSink].accepted) < MaxWrites
    /\ \E ev \in SinkEvents : SinkWrite(TheSink, ev)
    /\ SinkFrame
DoFlush == SinkFlush(TheSink) /\ SinkFrame
DoClose == SinkClose(TheSink) /\ SinkFrame
DoJsonFlushRegion == JsonFlushRegion(TheSink) /\ SinkFrame
DoParquetCreate == ParquetCreate(TheSink) /\ SinkFrame
DoParquetWrite == ParquetWrite(TheSink) /\ SinkFrame
DoParquetClose == ParquetClose(TheSink) /\ SinkFrame
DoParquetRename == ParquetRename(TheSink) /\ SinkFrame
DoIoError == SinkIoError(TheSink) /\ SinkFrame
DoTick == wall < MaxWall /\ Tick /\ SinkFrame

NextSink ==
    \/ DoWrite \/ DoFlush \/ DoClose \/ DoJsonFlushRegion
    \/ DoParquetCreate \/ DoParquetWrite \/ DoParquetClose \/ DoParquetRename
    \/ DoIoError \/ DoTick

SpecSink == InitSink /\ [][NextSink]_vars

(***************************************************************************)
(* Claims about one sink (SpecSink).                                       *)
(***************************************************************************)
Files == { fs[i] : i \in 1..Len(fs) }
JsonFiles == { f \in Files : f.ext = "json" /\ f.sealed }
ParquetFiles == { f \in Files : f.ext = "parquet" /\ f.sealed }
EventsInFile(f) ==
    IF f.ext = "json"
    THEN { f.content[i].ev : i \in { j \in 1..Len(f.content) : f.content[j].t = "rec" } }
    ELSE { f.content[i] : i \in 1..Len(f.content) }
OnDisk(w) == UNION { EventsInFile(f) : f \in { g \in JsonFiles \cup ParquetFiles : g.shard = w } }
ClosedOk(w) == sink[w].closed /\ sink[w].stage = "idle" /\ ~sink[w].err
Accepted(w) == { sink[w].accepted[n] : n \in 1..Len(sink[w].accepted) }

\* C2: once close() has returned Ok, every event the writer accepted is in a
\* file of the output directory, on the JSON sink and on the Parquet sink, for
\* every max_age_seconds.
C2_CloseFlushesAll ==
    \A w \in ShardIds : ClosedOk(w) => Accepted(w) \subseteq OnDisk(w)

FileBytes(f) == ByteLen(f.content)
LargestEvent(w) ==
    IF Accepted(w) = {} THEN 0
    ELSE CHOOSE m \in { ev.size : ev \in Accepted(w) } : \A ev \in Accepted(w) : m >= ev.size

\* C7 (as stated): for every target_size_mb, no JSON file is larger than
\* target_size_mb * 2^20 bytes plus the bytes of the largest single event.
C7_Original ==
    \A f \in JsonFiles : FileBytes(f) <= target_size_mb * MiB + LargestEvent(f.shard)

\* C7 (amended): for every target_size_mb of at least 1, no JSON file is larger
\* than target_size_mb * 2^20 bytes plus the bytes of the largest single event.
C7_FileSizeBound ==
    target_size_mb >= 1 =>
        \A f \in JsonFiles : FileBytes(f) <= target_size_mb * MiB + LargestEvent(f.shard)

\* a rotation by size has written a file that meets the bound exactly
C7_Witness ==
    /\ target_size_mb >= 1
    /\ \E f \in JsonFiles :
          /\ FileBytes(f) = target_size_mb * MiB + LargestEvent(f.shard)
          /\ Len(f.content) = 5

WellFormed(c) ==
    /\ Len(c) >= 3
    /\ Len(c) % 2 = 1
    /\ c[1].t = "hdr"
    /\ c[Len(c)].t = "ftr"
    /\ \A i \in 2..(Len(c) - 1) : c[i].t = IF i % 2 = 0 THEN "rec" ELSE "comma"

\* C8: every file the CloudTrail JSON sink has written is {"Records":[ followed
\* by one or more records separated by single commas, followed by ]} - whatever
\* the interleaving of write_event, flush and close.
C8_WireFormat == \A f \in JsonFiles : WellFormed(f.content)

\* two files of the same region, the second one with two records
C8_Witness ==
    \E i, j \in 1..Len(fs) :
        /\ i < j
        /\ fs[i].ext = "json" /\ fs[j].ext = "json" /\ fs[i].sealed /\ fs[j].sealed
        /\ fs[i].key = fs[j].key
        /\ Len(fs[j].content) = 5

\* C9: a path ending in .parquet comes into being only by the rename of a
\* .parquet.tmp file that holds the whole batch and has been closed; every
\* .parquet file is complete.
C9_RenameAfterComplete ==
    [][\A i \in 1..Len(fs') :
          fs'[i].ext = "parquet" =>
             /\ fs'[i].sealed
             /\ fs'[i].content # <<>>
             /\ i <= Len(fs)
             /\ fs[i].ext # "parquet" =>
                   /\ fs[i].ext = "parquet.tmp"
                   /\ fs[i].sealed
                   /\ fs[i].content = sink[fs[i].shard].inflight
                   /\ fs'[i].content = fs[i].content]_vars

\* a renamed file next to a temporary file that is still being written
C9_Witness ==
    \E i, j \in 1..Len(fs) :
        /\ fs[i].ext = "parquet"
        /\ fs[j].ext = "parquet.tmp" /\ ~fs[j].sealed /\ fs[j].content # <<>>

(***************************************************************************)
(* Spec: the whole run of `gen`.                                           *)
(***************************************************************************)
RunConfigs ==
    { \* two CloudTrail sources that draw from the same account and region
      [types |-> <<"cloudtrail", "cloudtrail">>, ok |-> <<TRUE, TRUE>>,
       pops |-> << <<ServiceAlways>>, <<ServiceAlways>> >>,
       regs |-> << {"us-east-1"}, {"us-east-1"} >>, rng |-> <<"low", "low">>,
       kinds |-> <<"json", "json">>,
       shards |-> 2, salt |-> <<1, 1, 1>>, max_events |-> 3, max_seconds |-> NoLimit,
       size_mb |-> 0, age |-> 0, faulty |-> FALSE],
      \* a CloudTrail and an Entra ID source, two regions, rotation by age, a time cap
      [types |-> <<"cloudtrail", "entra_id">>, ok |-> <<TRUE, TRUE>>,
       pops |-> << <<ServiceAlways>>, <<ServiceWrap>> >>,
       regs |-> << Regions, {} >>, rng |-> <<"low", "high">>,
       kinds |-> <<"json", "parquet">>,
       shards |-> 2, salt |-> <<0, 0, 1>>, max_events |-> NoLimit, max_seconds |-> 1,
       size_mb |-> 1, age |-> 1, faulty |-> FALSE],
      \* a catalogue with an empty event name, a source without actors, one shard
      [types |-> <<"cloudtrail", "entra_id">>, ok |-> <<FALSE, TRUE>>,
       pops |-> << <<HumanDay>>, <<>> >>,
       regs |-> << {"eu-west-1"}, {} >>, rng |-> <<"high", "low">>,
       kinds |-> <<"parquet", "parquet">>,
       shards |-> 1, salt |-> <<1, 0, 0>>, max_events |-> NoLimit, max_seconds |-> NoLimit,
       size_mb |-> 1, age |-> 0, faulty |-> TRUE] }

Init ==
    \E c \in RunConfigs :
        /\ startTime = 2 * DAY
        /\ sourceType = c.types
        /\ catalogOk = c.ok
        /\ regions = c.regs
        /\ rng = c.rng
        /\ actors = [s \in Sources |-> [i \in DOMAIN c.pops[s] |-> from_seed(c.pops[s][i])]]
        /\ \E intervals \in [Sources -> [1..2 -> sample_interval]] :
              /\ \A s \in Sources, i \in 1..2 : intervals[s][i] \in Drawn(s, sample_interval)
              /\ schedule = [s \in Sources |->
                                build_schedule(actors[s], startTime, intervals[s])]
        /\ genRet = [s \in Sources |-> Continue]
        /\ produced = [s \in Sources |-> <<>>]
        /\ target_size_mb = c.size_mb
        /\ max_age_seconds = c.age
        /\ sinkKind = c.kinds
        /\ IdleSinks
        /\ IdleLib
        /\ writer_shards = c.shards
        /\ hashSalt = c.salt
        /\ max_events = c.max_events
        /\ max_seconds = c.max_seconds
        /\ faulty = c.faulty
        /\ pc = "startup"
        /\ idx = 1
        /\ loop_start = 0
        /\ held = NoEvent
        /\ event_time = NoTime
        /\ next_event = [s \in Sources |-> NoEvent]
        /\ next_event_time = [s \in Sources |-> NoTime]
        /\ total_dispatched = 0
        /\ next_flush = 0
        /\ cursor = 1
        /\ queue = [w \in ShardIds |-> <<>>]
        /\ worker = [w \in ShardIds |-> "running"]
        /\ counters = NoWrites
        /\ sent = <<>>
        /\ exit = "running"

ShardEvent == \E w \in ShardIds : WorkerEvent(w)
ShardFlush == \E w \in ShardIds : WorkerFlush(w)
ShardClose == \E w \in ShardIds : WorkerClose(w)
ShardIoError == \E w \in ShardIds : WorkerIoError(w)

Next ==
    \/ FillExhausted \/ FillReschedule \/ FillEmit \/ FillTemplateError
    \/ LoopTop \/ Send \/ SendFlush \/ SendClose \/ Join
    \/ ShardEvent \/ ShardFlush \/ ShardClose \/ ShardIoError
    \/ RunTick

Spec == Init /\ [][Next]_vars

\* the same run over a longer time: the throttle sleeps and the sends block for
\* up to MaxBlocked seconds
NextBlocked ==
    \/ FillExhausted \/ FillReschedule \/ FillEmit \/ FillTemplateError
    \/ LoopTop \/ Send \/ SendFlush \/ SendClose \/ Join
    \/ ShardEvent \/ ShardFlush \/ ShardClose \/ ShardIoError
    \/ RunTickBlocked

SpecBlocked == Init /\ [][NextBlocked]_vars

(***************************************************************************)
(* Claims about the run (Spec).                                            *)
(***************************************************************************)
EventsOfSeq(q) == [n \in 1..Len(q) |-> q[n].ev]
IsEventCmd(msg) == msg.cmd = "Event"
QueuedEvents(w) == EventsOfSeq(SelectSeq(queue[w], IsEventCmd))
SentTo(w) == LET To(x) == x.shard = w IN EventsOfSeq(SelectSeq(sent, To))
NoIoError == \A w \in ShardIds : ~sink[w].err

\* C1: provided no sink I/O error occurs, the events the dispatcher has sent to
\* a shard are, in order and each exactly once, the events passed to the shard's
\* write_event followed by the events still in its queue; the queue never holds
\* more than its capacity and no event behind a Close; a shard that has exited
\* has passed every event sent to it to its sink.
C1_NoEventDropped ==
    NoIoError =>
        \A w \in LiveShards :
            /\ sink[w].accepted \o QueuedEvents(w) = SentTo(w)
            /\ Len(queue[w]) <= QueueDepth
            /\ \A i, j \in 1..Len(queue[w]) :
                  (i < j /\ queue[w][i].cmd = "Close") => queue[w][j].cmd # "Event"
            /\ worker[w] = "done" => sink[w].accepted = SentTo(w)

\* the dispatcher waits with an event in hand for room in a full queue, behind
\* events the shard has not yet taken
C1_Witness ==
    /\ pc = "send" /\ exit = "running"
    /\ NoIoError
    /\ LET w == <<idx, writer_index_for_event(held, writer_shards)>> IN
          /\ worker[w] = "running"
          /\ Len(queue[w]) = QueueDepth
          /\ QueuedEvents(w) # <<>>

\* C4: the events the dispatcher sends, all sources merged, have non-decreasing
\* event times over the whole run.
C4_GloballyTimeOrdered ==
    \A n \in 1..(Len(sent) - 1) :
        parse_event_time(sent[n + 1].ev.timestamp) >= parse_event_time(sent[n].ev.timestamp)

\* three events sent, the sources alternating, the last one later than the first
C4_Witness ==
    /\ Len(sent) >= 3
    /\ sent[1].ev.src # sent[2].ev.src
    /\ sent[2].ev.src # sent[3].ev.src
    /\ sent[1].ev.timestamp < sent[3].ev.timestamp

SamePair(a, b) == a.ev.tenant_id = b.ev.tenant_id /\ a.ev.region = b.ev.region
SentEntries == { sent[n] : n \in 1..Len(sent) }

\* C5 (as stated): all events of one (tenant, region) pair are sent to one and the
\* same writer shard during the whole run, and the shard index is below the
\* shard count.
C5_Original ==
    /\ \A a, b \in SentEntries : SamePair(a, b) => a.shard = b.shard
    /\ \A a \in SentEntries : a.shard[2] < writer_shards

\* C5 (amended): all events one source produces for one (tenant, region) pair are
\* sent to one and the same writer shard of that source during the whole run, and
\* the shard index is below the shard count.
C5_PartitionStable ==
    /\ \A a, b \in SentEntries :
          (a.ev.src = b.ev.src /\ SamePair(a, b)) => a.shard = b.shard
    /\ \A a \in SentEntries : a.shard[1] = a.ev.src /\ a.shard[2] < writer_shards

\* one source has sent two events of one pair, and an event of another pair to
\* its other shard
C5_Witness ==
    /\ writer_shards = 2
    /\ \E a, b, c \in SentEntries :
          /\ a # b /\ a.ev.src = b.ev.src /\ SamePair(a, b)
          /\ c.ev.src = a.ev.src /\ c.shard # a.shard

RECURSIVE Concat(_)
Concat(seqs) == IF seqs = <<>> THEN <<>> ELSE Head(seqs) \o Concat(Tail(seqs))
IsRec(tok) == tok.t = "rec"
FileEvents(f) ==
    IF f.ext = "json" THEN EventsOfSeq(SelectSeq(f.content, IsRec)) ELSE f.content
IsComplete(f) == f.sealed /\ f.ext \in {"json", "parquet"}
\* the records on disk of the files that satisfy In, in the order of file creation
DiskOf(In(_)) ==
    LET Pick(f) == IsComplete(f) /\ In(f)
        files == SelectSeq(fs, Pick)
    IN  Concat([n \in 1..Len(files) |-> FileEvents(files[n])])
EmittedOf(In(_)) == EventsOfSeq(SelectSeq(sent, In))
Pos(q, x) == CHOOSE n \in 1..Len(q) : q[n] = x
InOrderOf(disk, emitted) ==
    /\ \A n \in 1..Len(disk) : \E m \in 1..Len(emitted) : emitted[m] = disk[n]
    /\ \A i, j \in 1..Len(disk) : i < j => Pos(emitted, disk[i]) < Pos(emitted, disk[j])

Pairs == (AccountIds \cup {EntraTenant}) \X (Regions \cup {"global"})

\* C6 (as stated): the records of one (tenant, region) partition, read file by
\* file in the order of file creation and in order inside each file, appear in
\* the order in which the dispatcher emitted them.
C6_Original ==
    \A pair \in Pairs :
        LET Stored(f) == f.key = pair
            Emitted(x) == RegionKey(x.ev) = pair
        IN  InOrderOf(DiskOf(Stored), EmittedOf(Emitted))

\* C6 (amended): the records of one (tenant, region) partition of one source, read
\* file by file in the order of file creation and in order inside each file,
\* appear in the order in which the dispatcher emitted them.
C6_OnDiskOrder ==
    \A s \in Sources : \A pair \in Pairs :
        LET Stored(f) == f.key = pair /\ f.shard[1] = s
            Emitted(x) == RegionKey(x.ev) = pair /\ x.ev.src = s
        IN  InOrderOf(DiskOf(Stored), EmittedOf(Emitted))

\* two files of one partition of one source hold three records
C6_Witness ==
    \E i, j \in 1..Len(fs) :
        /\ i < j
        /\ IsComplete(fs[i]) /\ IsComplete(fs[j])
        /\ fs[i].key = fs[j].key /\ fs[i].shard = fs[j].shard
        /\ Len(FileEvents(fs[i])) + Len(FileEvents(fs[j])) >= 3

(***************************************************************************)
(* Claims about the caps and the end of the run (Spec, SpecLive).          *)
(***************************************************************************)
LoopLeft == pc \in {"close", "join"} \/ (pc = "exit" /\ exit \in {"ok", "worker_err"})

\* C13: the number of events sent to writer shards never exceeds max_events,
\* and a run that left its loop while a source still had an event to give, with
\* no max_seconds, has sent exactly max_events events.
C13_MaxEventsCap ==
    max_events # NoLimit =>
        /\ total_dispatched = Len(sent)
        /\ Len(sent) <= max_events
        /\ (LoopLeft /\ max_seconds = NoLimit /\ WithTime # {}) => Len(sent) = max_events

\* the run has ended well after max_events events, both sources still holding a peek
C13_Witness ==
    /\ exit = "ok"
    /\ max_events = 3 /\ max_seconds = NoLimit
    /\ Len(sent) = 3
    /\ WithTime = Sources

\* C14: with max_seconds = S every event is sent to its writer shard less than S
\* seconds after the start of the run, and an iteration that begins once S seconds
\* have elapsed sends nothing.
C14_MaxSecondsCap ==
    max_seconds # NoLimit =>
        /\ \A e \in { sent[n] : n \in 1..Len(sent) } : e.at < max_seconds
        /\ pc \in {"send", "fill", "flush"} => loop_start < max_seconds

C16_WorkerErrorSurfaced ==
    ((\E w \in LiveShards : worker[w] = "failed") /\ exit # "running") => exit = "worker_err"

\* the threads are scheduled and do not stop: every step of the dispatcher and of
\* every writer shard that stays possible is taken
Fairness ==
    /\ WF_vars(LoopTop) /\ WF_vars(Send) /\ WF_vars(SendFlush) /\ WF_vars(SendClose)
    /\ WF_vars(Join)
    /\ \A w \in ShardIds :
          WF_vars(WorkerEvent(w)) /\ WF_vars(WorkerFlush(w)) /\ WF_vars(WorkerClose(w))

SpecLive == Spec /\ Fairness

(***************************************************************************)
(* SpecActor: one ActorProfile under any sequence of calls of its methods, *)
(* at any times.                                                           *)
(***************************************************************************)
SeedChoices == {HumanDay, HumanNight, ServiceAlways, ServiceWrap, HumanLate}
NowChoices == { d * DAY + h * HOUR : d \in 2..3, h \in {3, 12, 23} }

IdleOutput ==
    /\ target_size_mb = 1
    /\ max_age_seconds = 0
    /\ sinkKind = [s \in Sources |-> "json"]

InitActor ==
    /\ IdleGenerators
    /\ IdleOutput
    /\ IdleSinks
    /\ IdleRun
    /\ profile \in { from_seed(seed) : seed \in SeedChoices }
    /\ called = NoCall
    /\ IdlePop
    /\ IdleLibCfg

ActorFrame == UNCHANGED <<popVars, libCfgVars, cfgVars, genVars, outCfgVars, sinkVars, runCfgVars, runVars>>

CallIsAvailable ==
    /\ \E now \in NowChoices : \E cooldown \in CooldownDraws(profile, now) :
          LET q == is_available_profile(profile, now, cooldown) IN
          /\ profile' = q
          /\ called' = [op |-> "is_available", now |-> now,
                        ret |-> IF is_available_result(q, now) THEN 1 ELSE 0]
    /\ ActorFrame

CallEnsureSession ==
    /\ \E now \in NowChoices :
       \E minutes \in MinutesDraws(profile), count \in CountDraws(profile),
          ua \in pick_user_agent(profile), ip \in pick_source_ip(profile) :
          /\ profile' = ensure_session(profile, now, minutes, count, ua, ip)
          /\ called' = [op |-> "ensure_session", now |-> now, ret |-> NoTime]
    /\ ActorFrame

CallConsumeSession ==
    /\ \E forget \in ForgetDraws(profile) : profile' = consume_session(profile, forget)
    /\ called' = [op |-> "consume_session", now |-> NoTime, ret |-> NoTime]
    /\ ActorFrame

\* the generator stores the name of the event it built for the actor
CallSetLastEvent ==
    /\ profile.last_event = None
    /\ profile' = [profile EXCEPT !.last_event = Some("signin")]
    /\ called' = [op |-> "last_event", now |-> NoTime, ret |-> NoTime]
    /\ ActorFrame

CallNextAvailableAt ==
    /\ \E now \in NowChoices :
          called' = [op |-> "next_available_at", now |-> now,
                     ret |-> next_available_at(profile, now)]
    /\ UNCHANGED profile
    /\ ActorFrame

NextActor ==
    \/ CallIsAvailable \/ CallEnsureSession \/ CallConsumeSession
    \/ CallNextAvailableAt \/ CallSetLastEvent

SpecActor == InitActor /\ [][NextActor]_vars

(***************************************************************************)
(* Claims about one ActorProfile (SpecActor).                              *)
(***************************************************************************)
Candidate(p, now) ==
    IF p.next_session_at # NoTime /\ p.next_session_at > now THEN p.next_session_at ELSE now
\* the whole hours after a and before b: the local hour and date change only there
HourMarks(a, b) == { h * HOUR : h \in ((a \div HOUR) + 1)..((b - 1) \div HOUR) }

\* C17: next_available_at(now) returns the earliest time t >= max(now,
\* next_session_at) whose local time is in the active window, for every seed.
C17_EarliestAvailable ==
    called.op = "next_available_at" =>
        LET c == Candidate(profile, called.now)
            r == called.ret
        IN  /\ r >= c
            /\ within_active_window(profile.seed, r)
            /\ \A t \in ({c} \cup HourMarks(c, r)) \ {r} :
                  ~within_active_window(profile.seed, t)

\* C18: in every state of an ActorProfile, session_remaining > 0 implies that
\* session_end_at is set.
C18_SessionHasEnd == profile.session_remaining > 0 => profile.session_end_at # NoTime

\* a second session, begun after the end of the first one, is under way
C18_Witness ==
    /\ called.op = "consume_session"
    /\ profile.session_remaining > 0
    /\ profile.session_end_at # NoTime
    /\ profile.next_session_at # NoTime

(***************************************************************************)
(* SpecDet: two runs of one generator, built from the same configuration,  *)
(* population, start time and seed.  Run r is source r.                    *)
(***************************************************************************)
SeededStreams == {"low", "high"}

InitDet ==
    /\ startTime \in StartChoices
    /\ \E kind \in SourceKinds :
          /\ sourceType = [s \in Sources |-> kind.type]
          /\ catalogOk = [s \in Sources |-> kind.ok]
    /\ regions = [s \in Sources |-> Regions]
    /\ \E stream \in SeededStreams : rng = [s \in Sources |-> stream]
    /\ \E seeds \in Populations :
          /\ actors = [s \in Sources |-> [i \in DOMAIN seeds |-> from_seed(seeds[i])]]
          /\ \E intervals \in [Sources -> [1..2 -> sample_interval]] :
                /\ \A s \in Sources, i \in 1..2 : intervals[s][i] \in Drawn(s, sample_interval)
                /\ schedule = [s \in Sources |->
                                  build_schedule(actors[s], startTime, intervals[s])]
    /\ genRet = [s \in Sources |-> Continue]
    /\ produced = [s \in Sources |-> <<>>]
    /\ IdleOutput
    /\ IdleSinks
    /\ IdleRun
    /\ IdleLib

DetFrame == UNCHANGED <<libVars, cfgVars, outCfgVars, sinkVars, runCfgVars, runVars>>

RunExhausted == \E s \in Sources : GenExhausted(s) /\ DetFrame
RunReschedule == \E s \in Sources : GenReschedule(s) /\ DetFrame
RunEmit == \E s \in Sources : GenEmit(s) /\ DetFrame
RunTemplateError == \E s \in Sources : GenTemplateError(s) /\ DetFrame

NextDet == RunExhausted \/ RunReschedule \/ RunEmit \/ RunTemplateError

SpecDet == InitDet /\ [][NextDet]_vars

(***************************************************************************)
(* Claims about two runs (SpecDet).                                        *)
(***************************************************************************)
\* the envelope and the payload of an event, without the number of the run
Emitted(ev) == [ev EXCEPT !.src = 0]
Shorter == IF Len(produced[1]) <= Len(produced[2]) THEN Len(produced[1]) ELSE Len(produced[2])

Repeat(c, n) == [i \in 1..n |-> c]
Padded(str) == <<" ">> \o str \o <<" ">>
Range(f) == { f[i] : i \in DOMAIN f }

RECURSIVE trim_start(_)
trim_start(str) == IF str # <<>> /\ Head(str) = " " THEN trim_start(Tail(str)) ELSE str
RECURSIVE trim_end(_)
trim_end(str) ==
    IF str # <<>> /\ str[Len(str)] = " " THEN trim_end(SubSeq(str, 1, Len(str) - 1)) ELSE str
trim(str) == trim_end(trim_start(str))

is_ascii_digit(c) == c \in {"0", "1", "2", "3", "4", "5", "6", "7", "8", "9"}

\* the value the seeded StdRng yields from the values of a range, in their order
Sample(stream, values) == IF stream = "low" THEN values[1] ELSE values[Len(values)]

ActorConfigError(id, field) == [ok |-> FALSE, id |-> id, field |-> field]
Built(actor) == [ok |-> TRUE, actor |-> actor]

ActorRoles == <<"admin", "developer", "readonly", "auditor">>
ServiceProfiles ==
    <<"generic", "ec2_reaper", "datalake_bot", "logs_shipper", "metrics_collector">>

for_role(role) ==
    CASE role = "admin" -> 24
      [] role = "developer" -> 18
      [] role = "readonly" -> 8
      [] OTHER -> 6

\* Utc::now() falls in winter or in summer; None for a name Tz::from_str rejects
TzOffset(name, season) ==
    CASE name = "UTC" -> Some(0)
      [] name = "Asia/Tokyo" -> Some(9)
      [] name = "America/Los_Angeles" -> Some(IF season = "summer" THEN 0 - 7 ELSE 0 - 8)
      [] OTHER -> None

\* error_rate_spec of an absent configuration: default_error_rate_spec
sample_error_rate(stream) == Sample(stream, <<1, 5>>)

pick_account_id(stream, account_ids) ==
    IF account_ids = <<>> THEN Repeat("0", 12) ELSE Sample(stream, account_ids)

new_human(stream, role_weights, rate_of, account_id, error_rate) ==
    LET role == IF role_weights = <<>> THEN "developer" ELSE Sample(stream, role_weights) IN
    [kind |-> "human", role |-> Some(role), id |-> None,
     identity_type |-> "IAMUser",
     principal_id |-> Sample(stream, <<"AIDAAAAAAAAAAAAAAAAA", "AIDA9999999999999999">>),
     account_id |-> account_id,
     rate_per_hour |-> rate_of[role], error_rate |-> error_rate,
     tags |-> {}, event_bias |-> <<>>,
     service_profile |-> None, service_pattern |-> None,
     user_name |-> Some(Sample(stream, <<"user-aaaaaa", "user-999999">>)),
     user_agents |-> Sample(stream, <<<<"aws-cli/2.15.0", "Boto3/1.34.0">>,
                                     <<"Mozilla/5.0", "aws-cli/2.15.0">>>>),
     source_ips |-> Sample(stream, <<<<"1.0.0.1", "1.0.0.2">>, <<"223.255.255.254">>>>),
     active_start_hour |-> Sample(stream, <<6, 11>>),
     active_hours |-> Sample(stream, <<7, 10>>),
     timezone_offset |-> Sample(stream, <<0 - 8, 8>>),
     timezone_fixed |-> FALSE,
     weekend_active |-> Sample(stream, <<TRUE, FALSE>>)]

new_service(stream, account_id, service_profile, pattern, rate_per_hour, error_rate) ==
    [kind |-> "service", role |-> None, id |-> None,
     identity_type |-> "AssumedRole",
     principal_id |-> Sample(stream, <<"AROAAAAAAAAAAAAAAAAA", "AROA9999999999999999">>),
     account_id |-> account_id,
     rate_per_hour |-> rate_per_hour, error_rate |-> error_rate,
     tags |-> {}, event_bias |-> <<>>,
     service_profile |-> Some(service_profile), service_pattern |-> Some(pattern),
     user_name |-> None,
     user_agents |-> Sample(stream, <<<<"aws-sdk-go/1.44.0">>, <<"aws-sdk-java/2.20.0">>>>),
     source_ips |-> Sample(stream, <<<<"10.0.0.1">>, <<"10.255.255.254">>>>),
     active_start_hour |-> Sample(stream, <<0, 23>>),
     active_hours |-> Sample(stream, <<16, 23>>),
     timezone_offset |-> 0,
     timezone_fixed |-> FALSE,
     weekend_active |-> TRUE]

validate_account_id_any_length(value) ==
    LET trimmed == trim(value) IN
    [valid |-> \A i \in DOMAIN trimmed : is_ascii_digit(trimmed[i]), value |-> trimmed]

validate_account_id(value) ==
    LET trimmed == trim(value) IN
    [valid |-> Len(trimmed) = 12 /\ \A i \in DOMAIN trimmed : is_ascii_digit(trimmed[i]),
     value |-> trimmed]

normalize_string_list(list) == SelectSeq([i \in DOMAIN list |-> trim(list[i])], LAMBDA v : v # <<>>)
normalize_tags(tags) == { trim(t) : t \in Range(tags) } \ {<<>>}
normalize_event_bias(bias) ==
    LET kept == { name \in DOMAIN bias : bias[name] > 0 } IN [name \in kept |-> bias[name]]

\* the first check of the sequence that fails, 0 when none does
FirstFailed(checks) ==
    LET failed == { i \in DOMAIN checks : checks[i][1] } IN
    IF failed = {} THEN 0 ELSE CHOOSE i \in failed : \A j \in failed : i <= j

\* one turn of the loop of build_explicit_actors, `ids` being the ids of the
\* entries before this one
explicit_actor(entry, ids, stream, account_ids, season) ==
    LET id == trim(entry.id)
        human == entry.kind = "human"
        account == IF entry.account_id = None
                   THEN [valid |-> TRUE, value |-> pick_account_id(stream, account_ids)]
                   ELSE validate_account_id(entry.account_id[1])
        agents == IF entry.user_agents = None THEN None
                  ELSE Some(normalize_string_list(entry.user_agents[1]))
        ips == IF entry.source_ips = None THEN None
               ELSE Some(normalize_string_list(entry.source_ips[1]))
        offset == IF entry.timezone = None THEN None ELSE TzOffset(entry.timezone[1], season)
        checks ==
            << <<id = <<>>, None, "id">>,
               <<id \in ids, Some(id), "id">>,
               <<entry.kind \notin {"human", "service"}, Some(id), "kind">>,
               <<entry.events_per_hour = None, Some(id), "events_per_hour">>,
               <<entry.events_per_hour # None /\ entry.events_per_hour[1] <= 0,
                 Some(id), "events_per_hour">>,
               <<entry.error_rate # None
                    /\ (entry.error_rate[1] < 0 \/ entry.error_rate[1] > 100),
                 Some(id), "error_rate">>,
               <<~account.valid, Some(id), "account_id">>,
               <<human /\ entry.service_profile # None, Some(id), "service_profile">>,
               <<human /\ entry.role = None, Some(id), "role">>,
               <<human /\ entry.role # None /\ entry.role[1] \notin Range(ActorRoles),
                 Some(id), "role">>,
               <<~human /\ entry.role # None, Some(id), "role">>,
               <<~human /\ entry.user_name # None, Some(id), "user_name">>,
               <<~human /\ entry.service_profile = None, Some(id), "service_profile">>,
               <<~human /\ entry.service_profile # None
                    /\ entry.service_profile[1] \notin Range(ServiceProfiles),
                 Some(id), "service_profile">>,
               <<agents = Some(<<>>), Some(id), "user_agents">>,
               <<ips = Some(<<>>), Some(id), "source_ips">>,
               <<entry.active_start_hour # None /\ entry.active_start_hour[1] > 23,
                 Some(id), "active_start_hour">>,
               <<entry.active_hours # None
                    /\ (entry.active_hours[1] = 0 \/ entry.active_hours[1] > 24),
                 Some(id), "active_hours">>,
               <<entry.timezone # None /\ offset = None, Some(id), "timezone">> >>
        failed == FirstFailed(checks)
        events_per_hour == entry.events_per_hour[1]
        error_rate == IF entry.error_rate = None THEN sample_error_rate(stream)
                      ELSE entry.error_rate[1]
        seed == IF human
                THEN LET role == entry.role[1]
                         made == new_human(stream, <<role>>, [r \in {role} |-> events_per_hour],
                                           account.value, error_rate)
                     IN  [made EXCEPT !.rate_per_hour = events_per_hour,
                                      !.user_name = IF entry.user_name = None THEN @
                                                    ELSE entry.user_name]
                ELSE new_service(stream, account.value, entry.service_profile[1],
                                 IF entry.service_pattern = None THEN "constant"
                                 ELSE entry.service_pattern[1],
                                 events_per_hour, error_rate)
    IN  IF failed # 0 THEN ActorConfigError(checks[failed][2], checks[failed][3])
        ELSE Built([seed EXCEPT
                 !.user_agents = IF agents = None THEN @ ELSE agents[1],
                 !.source_ips = IF ips = None THEN @ ELSE ips[1],
                 !.active_start_hour = IF entry.active_start_hour = None THEN @
                                       ELSE entry.active_start_hour[1],
                 !.active_hours = IF entry.active_hours = None THEN @ ELSE entry.active_hours[1],
                 !.weekend_active = IF entry.weekend_active = None THEN @
                                    ELSE entry.weekend_active[1],
                 !.timezone_offset = IF offset = None THEN @ ELSE offset[1],
                 !.timezone_fixed = IF offset = None THEN @ ELSE TRUE,
                 !.id = Some(id),
                 !.tags = normalize_tags(entry.tags),
                 !.event_bias = normalize_event_bias(entry.event_bias)])

\* Ok(actors) or the first Err
RECURSIVE build_explicit_actors(_, _, _, _, _)
build_explicit_actors(entries, seeds, stream, account_ids, season) ==
    IF Len(seeds) = Len(entries) THEN [ok |-> TRUE, actors |-> seeds]
    ELSE LET ids == { seeds[i].id[1] : i \in DOMAIN seeds }
             made == explicit_actor(entries[Len(seeds) + 1], ids, stream, account_ids, season)
         IN  IF made.ok
             THEN build_explicit_actors(entries, Append(seeds, made.actor), stream,
                                        account_ids, season)
             ELSE made

\* rand::thread_rng() is seeded by the operating system: the account ids it
\* yields are none of the configuration's business
RandomAccountIds == {Repeat("3", 12), Repeat("8", 12)}
ThreadDraws(config) ==
    LET count == IF config.population.account_count = None THEN 1
                 ELSE IF config.population.account_count[1] < 1 THEN 1
                 ELSE config.population.account_count[1]
    IN  [1..count -> RandomAccountIds]

build_account_pool(population, thread) ==
    LET filtered == IF population.account_ids = None THEN <<>>
                    ELSE SelectSeq(population.account_ids[1], LAMBDA id : Len(id) = 12)
    IN  IF filtered # <<>> THEN filtered ELSE thread

\* f64::round of n * percent / 100
RoundedShare(n, percent) == (n * percent + 50) \div 100

\* the loop of apply_hot_actor_rates from turn i on: gen_range(i..len) is i on
\* the low stream and len - 1 on the high one
RECURSIVE HotFrom_unswapped(_, _, _, _, _, _)
HotFrom_unswapped(stream, seeds, indices, i, hot_count, multiplier) ==
    IF i > hot_count THEN seeds
    ELSE LET swap_idx == IF stream = "low" THEN i ELSE Len(seeds)
             at == indices[swap_idx]
         IN  HotFrom_unswapped(stream, [seeds EXCEPT ![at].rate_per_hour = @ * multiplier],
                               indices, i + 1, hot_count, multiplier)

RECURSIVE HotFrom(_, _, _, _, _, _)
HotFrom(stream, seeds, indices, i, hot_count, multiplier) ==
    IF i > hot_count THEN seeds
    ELSE LET swap_idx == IF stream = "low" THEN i ELSE Len(seeds)
             swapped == [indices EXCEPT ![i] = indices[swap_idx], ![swap_idx] = indices[i]]
             at == swapped[i]
         IN  HotFrom(stream, [seeds EXCEPT ![at].rate_per_hour = @ * multiplier],
                     swapped, i + 1, hot_count, multiplier)

apply_hot_actor_rates(stream, seeds, hot_ratio, hot_multiplier) ==
    LET hot_count == RoundedShare(Len(seeds), hot_ratio) IN
    IF hot_count = 0 \/ seeds = <<>> THEN seeds
    ELSE HotFrom(stream, seeds, [i \in DOMAIN seeds |-> i], 1,
                 IF hot_count < Len(seeds) THEN hot_count ELSE Len(seeds),
                 IF hot_multiplier > 1 THEN hot_multiplier ELSE 1)

\* ActorPopulation::generate, without configured roles and service profiles
generate(stream, total, service_ratio, hot_actor_ratio, hot_actor_multiplier, account_ids) ==
    LET service_count == RoundedShare(total, service_ratio)
        human_count == IF total > service_count THEN total - service_count ELSE 0
        human == new_human(stream, ActorRoles, [r \in Range(ActorRoles) |-> for_role(r)],
                           pick_account_id(stream, account_ids), sample_error_rate(stream))
        service == new_service(stream, pick_account_id(stream, account_ids), "generic",
                               "constant", 6, sample_error_rate(stream))
    IN  IF total = 0 THEN <<>>
        ELSE apply_hot_actor_rates(stream,
                 [i \in 1..(human_count + service_count) |->
                      IF i <= human_count THEN human ELSE service],
                 hot_actor_ratio, hot_actor_multiplier)

apply_timezone_distribution_all(stream, seeds, distribution, season) ==
    LET entries == IF distribution = None THEN <<>> ELSE distribution[1]
        usable == SelectSeq(entries,
                            LAMBDA e : e.weight > 0 /\ TzOffset(e.name, season) # None)
        offsets == [i \in DOMAIN usable |-> TzOffset(usable[i].name, season)[1]]
    IN  IF offsets = <<>> THEN seeds
        ELSE [i \in DOMAIN seeds |->
                 [seeds[i] EXCEPT !.timezone_offset = Sample(stream, offsets)]]

apply_timezone_distribution(stream, seeds, distribution, season) ==
    LET entries == IF distribution = None THEN <<>> ELSE distribution[1]
        usable == SelectSeq(entries,
                            LAMBDA e : e.weight > 0 /\ TzOffset(e.name, season) # None)
        offsets == [i \in DOMAIN usable |-> TzOffset(usable[i].name, season)[1]]
    IN  IF offsets = <<>> THEN seeds
        ELSE [i \in DOMAIN seeds |->
                 IF seeds[i].timezone_fixed THEN seeds[i]
                 ELSE [seeds[i] EXCEPT !.timezone_offset = Sample(stream, offsets)]]

\* `thread` is what rand::thread_rng() yields and `season` where Utc::now() falls
generate_population(config, thread, season) ==
    LET population == config.population
        stream == config.seed[1]
        clamp(v) == IF v < 0 THEN 0 ELSE IF v > 100 THEN 100 ELSE v
        service_ratio == clamp(IF population.service_ratio = None THEN 20
                               ELSE population.service_ratio[1])
        hot_actor_ratio == clamp(IF population.hot_actor_ratio = None THEN 10
                                 ELSE population.hot_actor_ratio[1])
        hot_actor_multiplier == IF population.hot_actor_multiplier = None THEN 6
                                ELSE IF population.hot_actor_multiplier[1] > 1
                                     THEN population.hot_actor_multiplier[1] ELSE 1
        account_ids == build_account_pool(population, thread)
        explicit == build_explicit_actors(IF population.actor = None THEN <<>>
                                          ELSE population.actor[1],
                                          <<>>, stream, account_ids, season)
        wanted == IF population.actor_count = None THEN 500 ELSE population.actor_count[1]
        most == IF wanted > Len(explicit.actors) THEN wanted ELSE Len(explicit.actors)
        total == IF most > 1 THEN most ELSE 1
        remaining == total - Len(explicit.actors)
    IN  IF ~explicit.ok THEN [ok |-> FALSE, actors |-> <<>>, error |-> explicit]
        ELSE [ok |-> TRUE,
              actors |-> apply_timezone_distribution(stream,
                             generate(stream, remaining, service_ratio, hot_actor_ratio,
                                      hot_actor_multiplier, account_ids) \o explicit.actors,
                             config.timezone_distribution, season),
              error |-> None]

(***************************************************************************)
(* The population file.  A JSON text is the value it denotes.              *)
(***************************************************************************)
encode_string_list(values) == [json |-> "array", items |-> values]
encode_event_bias(values) == [json |-> "object", map |-> values]

Row(actor) ==
    [actor_kind |-> actor.kind, role |-> actor.role,
     identity_type |-> actor.identity_type, principal_id |-> actor.principal_id,
     account_id |-> actor.account_id, user_name |-> actor.user_name,
     user_agent |-> encode_string_list(actor.user_agents),
     source_ip |-> encode_string_list(actor.source_ips),
     active_start_hour |-> actor.active_start_hour, active_hours |-> actor.active_hours,
     timezone_offset |-> actor.timezone_offset, weekend_active |-> actor.weekend_active,
     rate_per_hour |-> actor.rate_per_hour,
     service_profile |-> actor.service_profile, service_pattern |-> actor.service_pattern,
     error_rate |-> actor.error_rate, actor_id |-> actor.id,
     tags |-> IF actor.tags = {} THEN None ELSE Some(encode_string_list(actor.tags)),
     event_bias |-> IF DOMAIN actor.event_bias = {} THEN None
                    ELSE Some(encode_event_bias(actor.event_bias))]

write_population(population) == [i \in DOMAIN population |-> Row(population[i])]

parse_string_list(value) ==
    IF value.json = "array" /\ value.items = <<>> THEN [ok |-> FALSE, list |-> <<>>]
    ELSE [ok |-> TRUE, list |-> value.items]
parse_optional_string_list(value) == { trim(item) : item \in value.items } \ {<<>>}
parse_event_bias(value) ==
    LET kept == { key \in DOMAIN value.map : value.map[key] > 0 } IN
    [key \in kept |-> value.map[key]]

fallback_rate_per_hour(kind, role) ==
    IF kind = "human" THEN for_role(IF role = None THEN "developer" ELSE role[1]) ELSE 6
fallback_error_rate(kind) == IF kind = "human" THEN 3 ELSE 1

\* one turn of the loop of read_batch: Ok(seed) or the io::Error
read_row(row) ==
    LET kind == row.actor_kind
        user_agents == parse_string_list(row.user_agent)
        source_ips == parse_string_list(row.source_ip)
    IN  IF \/ kind \notin {"human", "service"}
           \/ row.role # None /\ row.role[1] \notin Range(ActorRoles)
           \/ ~user_agents.ok \/ ~source_ips.ok
           \/ row.active_start_hour \notin 0..255 \/ row.active_hours \notin 0..255
        THEN [ok |-> FALSE]
        ELSE Built(
            [kind |-> kind, role |-> row.role, id |-> row.actor_id,
             identity_type |-> row.identity_type, principal_id |-> row.principal_id,
             account_id |-> row.account_id,
             rate_per_hour |-> IF row.rate_per_hour <= 0
                               THEN fallback_rate_per_hour(kind, row.role)
                               ELSE row.rate_per_hour,
             error_rate |-> IF row.error_rate < 0 THEN fallback_error_rate(kind)
                            ELSE row.error_rate,
             tags |-> IF row.tags = None THEN {} ELSE parse_optional_string_list(row.tags[1]),
             event_bias |-> IF row.event_bias = None THEN <<>>
                            ELSE parse_event_bias(row.event_bias[1]),
             service_profile |-> IF kind = "human" THEN None
                                 ELSE IF row.service_profile = None
                                         \/ row.service_profile[1] \notin Range(ServiceProfiles)
                                      THEN Some("generic") ELSE row.service_profile,
             service_pattern |-> IF kind = "human" THEN None
                                 ELSE IF row.service_pattern = None
                                         \/ row.service_pattern[1]
                                                \notin {"constant", "diurnal", "bursty"}
                                      THEN Some("constant") ELSE row.service_pattern,
             user_name |-> row.user_name,
             user_agents |-> user_agents.list, source_ips |-> source_ips.list,
             active_start_hour |-> row.active_start_hour, active_hours |-> row.active_hours,
             timezone_offset |-> row.timezone_offset,
             timezone_fixed |-> FALSE,
             weekend_active |-> row.weekend_active])

read_batch(rows) ==
    LET seeds == [i \in DOMAIN rows |-> read_row(rows[i])] IN
    IF \E i \in DOMAIN rows : ~seeds[i].ok THEN [read |-> TRUE, ok |-> FALSE, actors |-> <<>>]
    ELSE [read |-> TRUE, ok |-> TRUE, actors |-> [i \in DOMAIN rows |-> seeds[i].actor]]

(***************************************************************************)
(* SpecPop: one population configuration with a seed, handed to            *)
(* generate_population up to MaxCalls times; a population it returned is   *)
(* written to the population file and read back.                           *)
(***************************************************************************)
MaxCalls == 2

Alice ==      \* a valid explicit human
    [id |-> <<"a">>, kind |-> "human", role |-> Some("admin"), service_profile |-> None,
     service_pattern |-> None, events_per_hour |-> Some(10), error_rate |-> Some(0),
     account_id |-> Some(Repeat("1", 12)), user_name |-> Some("alice"), timezone |-> None,
     active_start_hour |-> None, active_hours |-> None, weekend_active |-> None,
     user_agents |-> None, source_ips |-> None, tags |-> <<>>, event_bias |-> <<>>]
Backup ==     \* a valid explicit service
    [id |-> <<"b">>, kind |-> "service", role |-> None, service_profile |-> Some("ec2_reaper"),
     service_pattern |-> Some("bursty"), events_per_hour |-> Some(4), error_rate |-> None,
     account_id |-> None, user_name |-> None, timezone |-> None,
     active_start_hour |-> Some(22), active_hours |-> Some(8), weekend_active |-> Some(FALSE),
     user_agents |-> Some(<<Padded(<<"c", "l", "i">>), <<" ">>>>), source_ips |-> None,
     tags |-> <<<<"x">>, Padded(<<"x">>), <<>>, <<"w">>>>,
     event_bias |-> [name \in {"GetObject", "PutObject"} |->
                        IF name = "GetObject" THEN 3 ELSE 0]]

ValidEntries ==
    {Alice, Backup,
     [Alice EXCEPT !.id = Padded(<<"b">>), !.account_id = Some(Padded(Repeat("2", 12)))],
     [Alice EXCEPT !.timezone = Some("UTC"), !.error_rate = Some(100)],
     [Alice EXCEPT !.timezone = Some("America/Los_Angeles"), !.account_id = None],
     [Backup EXCEPT !.timezone = Some("Asia/Tokyo")]}
InvalidEntries ==
    {[Alice EXCEPT !.id = <<>>],
     [Alice EXCEPT !.id = <<" ">>],
     [Alice EXCEPT !.kind = "robot"],
     [Alice EXCEPT !.role = None],
     [Alice EXCEPT !.role = Some("root")],
     [Alice EXCEPT !.service_profile = Some("generic")],
     [Alice EXCEPT !.events_per_hour = None],
     [Alice EXCEPT !.events_per_hour = Some(0)],
     [Alice EXCEPT !.error_rate = Some(101)],
     [Alice EXCEPT !.error_rate = Some(0 - 1)],
     [Alice EXCEPT !.account_id = Some(Repeat("1", 11))],
     [Alice EXCEPT !.account_id = Some(Repeat("1", 13))],
     [Alice EXCEPT !.account_id = Some(Repeat("1", 11) \o <<"x">>)],
     [Alice EXCEPT !.timezone = Some("Mars/Olympus")],
     [Alice EXCEPT !.active_hours = Some(0)],
     [Backup EXCEPT !.service_profile = None],
     [Backup EXCEPT !.role = Some("admin")],
     [Backup EXCEPT !.user_name = Some("backup")],
     [Backup EXCEPT !.user_agents = Some(<<<<" ">>>>)],
     [Backup EXCEPT !.events_per_hour = Some(0 - 2)]}
EntryChoices == ValidEntries \cup InvalidEntries

\* the rest of the configuration
PopShapes ==
    {[seed |-> Some("low"), timezone_distribution |-> None,
      population |-> [actor_count |-> Some(1), service_ratio |-> None,
                      hot_actor_ratio |-> None,
                      hot_actor_multiplier |-> None, account_ids |-> None,
                      account_count |-> None, actor |-> None]],
     [seed |-> Some("high"),
      timezone_distribution |-> Some(<<[name |-> "America/Los_Angeles", weight |-> 2],
                                       [name |-> "Mars/Olympus", weight |-> 1],
                                       [name |-> "Asia/Tokyo", weight |-> 0]>>),
      population |-> [actor_count |-> Some(3), service_ratio |-> None,
                      hot_actor_ratio |-> Some(50),
                      hot_actor_multiplier |-> None,
                      account_ids |-> Some(<<Repeat("1", 12), Repeat("2", 11),
                                             Repeat("2", 12)>>),
                      account_count |-> None, actor |-> None]],
     [seed |-> Some("low"),
      timezone_distribution |-> Some(<<[name |-> "UTC", weight |-> 1],
                                       [name |-> "Asia/Tokyo", weight |-> 1]>>),
      population |-> [actor_count |-> Some(3), service_ratio |-> Some(150),
                      hot_actor_ratio |-> None,
                      hot_actor_multiplier |-> None,
                      account_ids |-> Some(<<Repeat("2", 11)>>),
                      account_count |-> Some(2), actor |-> None]],
     [seed |-> Some("high"), timezone_distribution |-> None,
      population |-> [actor_count |-> Some(4), service_ratio |-> Some(50),
                      hot_actor_ratio |-> Some(70),
                      hot_actor_multiplier |-> Some(3), account_ids |-> None,
                      account_count |-> Some(0), actor |-> Some(<<>>)]],
     [seed |-> Some("low"), timezone_distribution |-> None,
      population |-> [actor_count |-> Some(2), service_ratio |-> Some(0 - 10),
                      hot_actor_ratio |-> Some(0),
                      hot_actor_multiplier |-> Some(0),
                      account_ids |-> Some(<<Padded(Repeat("7", 10)), Repeat("7", 12)>>),
                      account_count |-> None, actor |-> None]],
     [seed |-> Some("high"), timezone_distribution |-> None,
      population |-> [actor_count |-> Some(2), service_ratio |-> Some(50),
                      hot_actor_ratio |-> Some(250),
                      hot_actor_multiplier |-> Some(0), account_ids |-> None,
                      account_count |-> None, actor |-> None]]}

ActorLists ==
    {<<>>} \cup { <<e>> : e \in EntryChoices }
           \cup { <<d, e>> : d \in EntryChoices, e \in EntryChoices }

InitPop ==
    /\ IdleGenerators
    /\ IdleOutput
    /\ IdleSinks
    /\ IdleRun
    /\ profile = from_seed(ServiceAlways)
    /\ called = NoCall
    /\ \E shape \in PopShapes, list \in ActorLists :
          popConfig = IF list = <<>> THEN shape
                      ELSE [shape EXCEPT !.population.actor = Some(list)]
    /\ generated = <<>>
    /\ pfile = NoFile
    /\ loaded = NoRead
    /\ IdleLibCfg

PopFrame ==
    UNCHANGED <<popConfig, profile, called, libCfgVars, cfgVars, genVars, outCfgVars, sinkVars,
                runCfgVars, runVars>>

CallGeneratePopulation ==
    /\ Len(generated) < MaxCalls
    /\ \E thread \in ThreadDraws(popConfig), season \in {"winter", "summer"} :
          generated' = Append(generated, generate_population(popConfig, thread, season))
    /\ UNCHANGED <<pfile, loaded>>
    /\ PopFrame

CallWritePopulation ==
    /\ \E n \in DOMAIN generated :
          /\ generated[n].ok
          /\ pfile' = [written |-> TRUE, from |-> n,
                       rows |-> write_population(generated[n].actors)]
    /\ pfile' # pfile
    /\ loaded' = NoRead
    /\ UNCHANGED generated
    /\ PopFrame

CallReadPopulation ==
    /\ pfile.written
    /\ ~loaded.read
    /\ loaded' = read_batch(pfile.rows)
    /\ UNCHANGED <<generated, pfile>>
    /\ PopFrame

NextPop == CallGeneratePopulation \/ CallWritePopulation \/ CallReadPopulation

SpecPop == InitPop /\ [][NextPop]_vars

(***************************************************************************)
(* SpecFile: the file read_population is handed was not written by this    *)
(* build: it has the columns of a population file, and one stored value of *)
(* its first row is any value its column type can hold.                    *)
(***************************************************************************)
StoredChoices ==
    {<<"active_start_hour", 24>>, <<"active_start_hour", 0 - 1>>,
     <<"active_start_hour", 256>>, <<"active_hours", 0>>, <<"active_hours", 25>>,
     <<"rate_per_hour", 0>>, <<"error_rate", 150>>, <<"error_rate", 0 - 5>>}

Stored(rows, field, value) ==
    [rows EXCEPT ![1] = [name \in DOMAIN @ |-> IF name = field THEN value ELSE @[name]]]

CallStoreFile ==
    /\ \E n \in DOMAIN generated, choice \in StoredChoices :
          /\ generated[n].ok
          /\ pfile' = [written |-> TRUE, from |-> n,
                       rows |-> Stored(write_population(generated[n].actors),
                                       choice[1], choice[2])]
    /\ pfile' # pfile
    /\ loaded' = NoRead
    /\ UNCHANGED generated
    /\ PopFrame

InitFile ==
    /\ InitPop
    /\ \/ popConfig.population.actor \in {None, Some(<<>>)}
       \/ \E e \in ValidEntries : popConfig.population.actor = Some(<<e>>)

NextFile == CallGeneratePopulation \/ CallStoreFile \/ CallReadPopulation

SpecFile == InitFile /\ [][NextFile]_vars

(***************************************************************************)
(* SpecPick: the event names the CloudTrail generator picks for one actor. *)
(* Weights are in tenths.                                                  *)
(***************************************************************************)
\* the candidate tables of the roles and of the service profiles: the arms of
\* `match last`, in order; the arm with no pattern is `_`
CandidateTable ==
    [service_candidates |->
        <<[last |-> {None},
            list |-> <<<<"AssumeRole", 20>>, <<"GetCallerIdentity", 10>>, <<"PutLogEvents", 12>>>>],
          [last |-> {Some("AssumeRole"), Some("GetCallerIdentity")},
            list |-> <<<<"PutObject", 12>>, <<"GetObject", 12>>, <<"PutLogEvents", 16>>,
                       <<"DescribeInstances", 6>>, <<"RunInstances", 2>>>>],
          [last |-> {},
            list |-> <<<<"PutLogEvents", 18>>, <<"GetObject", 11>>, <<"PutObject", 9>>,
                       <<"DescribeInstances", 6>>>>]>>,
     ec2_reaper_candidates |->
        <<[last |-> {None},
            list |-> <<<<"AssumeRole", 12>>, <<"GetCallerIdentity", 8>>, <<"DescribeInstances", 16>>>>],
          [last |-> {Some("AssumeRole"), Some("GetCallerIdentity")},
            list |-> <<<<"DescribeInstances", 20>>, <<"StopInstances", 9>>, <<"TerminateInstances",
                       14>>, <<"StartInstances", 5>>>>],
          [last |-> {},
            list |-> <<<<"DescribeInstances", 21>>, <<"TerminateInstances", 16>>, <<"StopInstances",
                       9>>, <<"StartInstances", 4>>>>]>>,
     datalake_bot_candidates |->
        <<[last |-> {None},
            list |-> <<<<"AssumeRole", 11>>, <<"GetCallerIdentity", 7>>, <<"CreateBucket", 6>>,
                       <<"PutObject", 12>>>>],
          [last |-> {Some("AssumeRole"), Some("GetCallerIdentity")},
            list |-> <<<<"PutObject", 22>>, <<"GetObject", 16>>, <<"DeleteObject", 6>>, <<"Encrypt",
                       12>>, <<"Decrypt", 10>>, <<"GenerateDataKey", 9>>, <<"PutLogEvents", 8>>>>],
          [last |-> {},
            list |-> <<<<"PutObject", 21>>, <<"GetObject", 15>>, <<"DeleteObject", 6>>, <<"Encrypt",
                       11>>, <<"Decrypt", 9>>, <<"GenerateDataKey", 9>>, <<"PutLogEvents", 7>>>>]>>,
     logs_shipper_candidates |->
        <<[last |-> {None},
            list |-> <<<<"AssumeRole", 12>>, <<"GetCallerIdentity", 7>>, <<"CreateLogGroup", 6>>,
                       <<"CreateLogStream", 10>>>>],
          [last |-> {Some("AssumeRole"), Some("GetCallerIdentity")},
            list |-> <<<<"CreateLogStream", 13>>, <<"DescribeLogStreams", 11>>, <<"PutLogEvents",
                       22>>>>],
          [last |-> {},
            list |-> <<<<"PutLogEvents", 24>>, <<"CreateLogStream", 11>>, <<"DescribeLogStreams",
                       10>>, <<"CreateLogGroup", 4>>>>]>>,
     metrics_collector_candidates |->
        <<[last |-> {None},
            list |-> <<<<"AssumeRole", 10>>, <<"GetCallerIdentity", 8>>, <<"ListMetrics", 9>>,
                       <<"PutMetricData", 11>>>>],
          [last |-> {Some("AssumeRole"), Some("GetCallerIdentity")},
            list |-> <<<<"GetMetricData", 15>>, <<"PutMetricData", 12>>, <<"ListMetrics", 8>>>>],
          [last |-> {},
            list |-> <<<<"GetMetricData", 16>>, <<"PutMetricData", 11>>, <<"ListMetrics", 8>>>>]>>,
     admin_candidates |->
        <<[last |-> {None},
            list |-> <<<<"ConsoleLogin", 30>>, <<"GetSessionToken", 10>>, <<"AssumeRole", 15>>,
                       <<"GetCallerIdentity", 6>>>>],
          [last |-> {Some("ConsoleLogin")},
            list |-> <<<<"GetSessionToken", 14>>, <<"AssumeRole", 25>>, <<"CreateUser", 6>>,
                       <<"CreateAccessKey", 5>>, <<"AttachRolePolicy", 4>>>>],
          [last |-> {Some("AssumeRole")},
            list |-> <<<<"CreateUser", 6>>, <<"AttachRolePolicy", 5>>, <<"UpdateAccessKey", 4>>,
                       <<"DescribeInstances", 7>>>>],
          [last |-> {},
            list |-> <<<<"DescribeInstances", 8>>, <<"GetCallerIdentity", 6>>,
                       <<"CreateSecurityGroup", 3>>, <<"AuthorizeSecurityGroupIngress", 3>>>>]>>,
     developer_candidates |->
        <<[last |-> {None},
            list |-> <<<<"ConsoleLogin", 26>>, <<"GetSessionToken", 9>>, <<"AssumeRole", 18>>,
                       <<"GetCallerIdentity", 5>>>>],
          [last |-> {Some("ConsoleLogin")},
            list |-> <<<<"GetSessionToken", 12>>, <<"AssumeRole", 24>>, <<"RunInstances", 8>>,
                       <<"CreateSecurityGroup", 6>>, <<"PutObject", 6>>>>],
          [last |-> {Some("AssumeRole")},
            list |-> <<<<"RunInstances", 9>>, <<"DescribeInstances", 10>>, <<"PutObject", 10>>,
                       <<"GetObject", 8>>>>],
          [last |-> {},
            list |-> <<<<"DescribeInstances", 10>>, <<"PutObject", 9>>, <<"GetObject", 8>>,
                       <<"CreateLogGroup", 4>>>>]>>,
     readonly_candidates |->
        <<[last |-> {None},
            list |-> <<<<"ConsoleLogin", 28>>, <<"GetSessionToken", 7>>, <<"AssumeRole", 12>>,
                       <<"GetCallerIdentity", 6>>>>],
          [last |-> {Some("ConsoleLogin")},
            list |-> <<<<"GetSessionToken", 8>>, <<"DescribeInstances", 12>>, <<"GetObject", 10>>,
                       <<"GetCallerIdentity", 6>>>>],
          [last |-> {Some("AssumeRole")},
            list |-> <<<<"DescribeInstances", 12>>, <<"GetObject", 11>>, <<"GetCallerIdentity", 6>>>>],
          [last |-> {},
            list |-> <<<<"DescribeInstances", 12>>, <<"GetObject", 10>>, <<"GetCallerIdentity", 5>>>>]>>,
     auditor_candidates |->
        <<[last |-> {None},
            list |-> <<<<"ConsoleLogin", 22>>, <<"GetSessionToken", 8>>, <<"AssumeRole", 14>>,
                       <<"GetCallerIdentity", 8>>>>],
          [last |-> {Some("ConsoleLogin")},
            list |-> <<<<"GetSessionToken", 9>>, <<"GetCallerIdentity", 9>>, <<"DescribeInstances",
                       9>>, <<"PutLogEvents", 12>>, <<"CreateLogGroup", 4>>>>],
          [last |-> {Some("AssumeRole")},
            list |-> <<<<"PutLogEvents", 15>>, <<"DescribeInstances", 8>>, <<"GetObject", 6>>>>],
          [last |-> {},
            list |-> <<<<"PutLogEvents", 14>>, <<"DescribeInstances", 8>>, <<"GetCallerIdentity", 6>>>>]>>]

\* the arm `match last` takes
Candidates(table, last) ==
    LET arms == CandidateTable[table]
        hits == { n \in DOMAIN arms : last \in arms[n].last }
    IN  IF hits = {} THEN arms[Len(arms)].list
        ELSE arms[CHOOSE n \in hits : \A m \in hits : n <= m].list

human_candidates(role, last) ==
    Candidates(CASE role = "admin" -> "admin_candidates"
                 [] role = "developer" -> "developer_candidates"
                 [] role = "readonly" -> "readonly_candidates"
                 [] role = "auditor" -> "auditor_candidates", last)

service_profile_candidates(service_profile, last) ==
    LET known == IF service_profile = None THEN "generic" ELSE service_profile[1] IN
    Candidates(CASE known = "generic" -> "service_candidates"
                 [] known = "ec2_reaper" -> "ec2_reaper_candidates"
                 [] known = "datalake_bot" -> "datalake_bot_candidates"
                 [] known = "logs_shipper" -> "logs_shipper_candidates"
                 [] known = "metrics_collector" -> "metrics_collector_candidates", last)

actor_role_or_default(p) == IF p.seed.role = None THEN "developer" ELSE p.seed.role[1]

\* the catalogue of the `curated` flag
curated_event_weights ==
    <<[name |-> "ConsoleLogin", weight |-> 10],
      [name |-> "AssumeRole", weight |-> 8],
      [name |-> "GetSessionToken", weight |-> 6],
      [name |-> "GetCallerIdentity", weight |-> 6],
      [name |-> "CreateUser", weight |-> 3],
      [name |-> "DeleteUser", weight |-> 1],
      [name |-> "CreateAccessKey", weight |-> 2],
      [name |-> "UpdateAccessKey", weight |-> 2],
      [name |-> "AttachRolePolicy", weight |-> 2],
      [name |-> "PutObject", weight |-> 14],
      [name |-> "GetObject", weight |-> 16],
      [name |-> "DeleteObject", weight |-> 8],
      [name |-> "CreateBucket", weight |-> 3],
      [name |-> "DeleteBucket", weight |-> 1],
      [name |-> "RunInstances", weight |-> 4],
      [name |-> "TerminateInstances", weight |-> 2],
      [name |-> "StartInstances", weight |-> 3],
      [name |-> "StopInstances", weight |-> 3],
      [name |-> "DescribeInstances", weight |-> 9],
      [name |-> "CreateSecurityGroup", weight |-> 3],
      [name |-> "AuthorizeSecurityGroupIngress", weight |-> 4],
      [name |-> "CreateLogGroup", weight |-> 2],
      [name |-> "PutLogEvents", weight |-> 11],
      [name |-> "CreateLogStream", weight |-> 5],
      [name |-> "DescribeLogStreams", weight |-> 6],
      [name |-> "Encrypt", weight |-> 5],
      [name |-> "Decrypt", weight |-> 5],
      [name |-> "GenerateDataKey", weight |-> 4],
      [name |-> "PutMetricData", weight |-> 8],
      [name |-> "GetMetricData", weight |-> 8],
      [name |-> "ListMetrics", weight |-> 5]>>

\* CloudTrailGenerator::new: the HashSet and the HashMap built from the events
allowed_events(evs) == { evs[n].name : n \in DOMAIN evs }
event_weights(evs, name) ==
    LET at == { n \in DOMAIN evs : evs[n].name = name } IN
    IF at = {} THEN 10 ELSE evs[CHOOSE n \in at : \A m \in at : m <= n].weight

\* EventSelector::choose: any event of the catalogue (all weights are > 0)
choose(evs) == { evs[n].name : n \in { m \in DOMAIN evs : evs[m].weight > 0 } }

\* WeightedIndex::new(weights) is Ok
WeightedIndexOk(weights) ==
    /\ weights # <<>>
    /\ \A n \in DOMAIN weights : weights[n] >= 0
    /\ \E n \in DOMAIN weights : weights[n] > 0

\* mutant: the candidates are not filtered by the allowed set
pick_weighted_event_unfiltered(evs, candidates) ==
    LET weights == [n \in DOMAIN candidates |->
                       event_weights(evs, candidates[n][1]) * candidates[n][2]]
    IN  IF candidates = <<>> THEN choose(evs)
        ELSE IF WeightedIndexOk(weights)
             THEN { candidates[n][1] : n \in { m \in DOMAIN candidates : weights[m] > 0 } }
             ELSE choose(evs)

\* the names pick_weighted_event can return
pick_weighted_event(evs, candidates) ==
    LET kept == SelectSeq(candidates, LAMBDA c : c[1] \in allowed_events(evs))
        weights == [n \in DOMAIN kept |-> event_weights(evs, kept[n][1]) * kept[n][2]]
    IN  IF kept = <<>> THEN choose(evs)
        ELSE IF WeightedIndexOk(weights)
             THEN { kept[n][1] : n \in { m \in DOMAIN kept : weights[m] > 0 } }
             ELSE choose(evs)

\* the candidates pick_event_for_actor hands to pick_weighted_event
CandidatesFor(p) ==
    IF p.seed.kind = "human"
    THEN human_candidates(actor_role_or_default(p), p.last_event)
    ELSE service_profile_candidates(p.seed.service_profile, p.last_event)

\* an actor of a role or of a service profile
PickSeed(kind, role, service_profile) ==
    [kind |-> kind, role |-> role, service_profile |-> service_profile,
     active_start_hour |-> 0, active_hours |-> 24, timezone_offset |-> 0,
     weekend_active |-> TRUE, account_id |-> "111111111111",
     user_agents |-> <<"aws-sdk">>, source_ips |-> <<"203.0.113.9">>]
PickSeeds ==
    { PickSeed("human", role, None) :
         role \in {None} \cup { Some(r) : r \in Range(ActorRoles) } }
    \cup { PickSeed("service", None, sp) :
             sp \in {None} \cup { Some(r) : r \in Range(ServiceProfiles) } }

\* the events a generator is built from: the curated catalogue of from_config,
\* and two short lists handed to CloudTrailGenerator::new
CatalogChoices ==
    {curated_event_weights,
     <<[name |-> "ConsoleLogin", weight |-> 10], [name |-> "PutLogEvents", weight |-> 11],
       [name |-> "DescribeInstances", weight |-> 9]>>,
     <<[name |-> "DeleteBucket", weight |-> 1], [name |-> "DeleteUser", weight |-> 1]>>}

\* the simulated time of the picks
PickTimes == {2 * DAY + 12 * HOUR}

InitPick ==
    /\ IdleGenerators
    /\ IdleOutput
    /\ IdleSinks
    /\ IdleRun
    /\ IdlePop
    /\ profile \in { from_seed(seed) : seed \in PickSeeds }
    /\ called = NoCall
    /\ events \in CatalogChoices
    /\ traffic = None

PickFrame == UNCHANGED <<popVars, libCfgVars, cfgVars, genVars, outCfgVars, sinkVars,
                         runCfgVars, runVars>>

CallPickEventForActor ==
    /\ \E now \in PickTimes :
       \E minutes \in MinutesDraws(profile), count \in CountDraws(profile),
          ua \in pick_user_agent(profile), ip \in pick_source_ip(profile) :
          LET a == ensure_session(profile, now, minutes, count, ua, ip) IN
          \E event \in pick_weighted_event(events, CandidatesFor(a)) :
             /\ profile' = [a EXCEPT !.last_event = Some(event)]
             /\ called' = [op |-> "pick_event_for_actor", now |-> now, ret |-> event]
    /\ PickFrame

NextPick == CallPickEventForActor \/ CallConsumeSession

SpecPick == InitPick /\ [][NextPick]_vars

(***************************************************************************)
(* SpecTraffic: TrafficModel::multiplier.  The multipliers of a curve are  *)
(* in tenths, a returned value is the fraction num / den.                  *)
(***************************************************************************)
Frac(num, den) == [num |-> num, den |-> den]
One == Frac(1, 1)
SameValue(x, y) == x.num * y.den = y.num * x.den

\* time_utc.with_timezone(tz): the instants of the model are of January 1970
with_timezone(t, name) == t + TzOffset(name, "winter")[1] * HOUR

\* TrafficModel::from_config: the model, or the TrafficError
traffic_from_config(config) ==
    LET list == config.timezone_distribution IN
    IF list # None /\ list[1] = <<>> THEN [ok |-> FALSE, error |-> "EmptyTimezones"]
    ELSE IF list # None /\ \E n \in DOMAIN list[1] :
                 /\ \A m \in 1..(n - 1) :
                       list[1][m].weight > 0 /\ TzOffset(list[1][m].name, "winter") # None
                 /\ list[1][n].weight <= 0
         THEN [ok |-> FALSE, error |-> "InvalidWeight"]
    ELSE IF list # None /\ \E n \in DOMAIN list[1] : TzOffset(list[1][n].name, "winter") = None
         THEN [ok |-> FALSE, error |-> "InvalidTimezone"]
    ELSE [ok |-> TRUE, mode |-> config.mode, curve |-> config.curve,
          timezones |-> IF list = None THEN <<[name |-> "UTC", weight |-> 1]>> ELSE list[1]]

\* mutant: in a peak hour the peak multiplier replaces the multiplier of the day
zone_multiplier_peak_only(t, name, curve) ==
    LET local == with_timezone(t, name) IN
    IF HourOf(local) \in Range(curve.peak_hours_local) THEN curve.peak_multiplier * 10
    ELSE IF number_from_monday(DateOf(local)) \in {6, 7}
         THEN curve.weekend_multiplier * 10 ELSE curve.weekday_multiplier * 10

\* one turn of the loop of weekday_peak_multiplier: the multiplier of a
\* timezone, in hundredths
zone_multiplier(t, name, curve) ==
    LET local == with_timezone(t, name)
        is_weekend == number_from_monday(DateOf(local)) \in {6, 7}
        multiplier == IF is_weekend THEN curve.weekend_multiplier
                      ELSE curve.weekday_multiplier
    IN  IF HourOf(local) \in Range(curve.peak_hours_local)
        THEN multiplier * curve.peak_multiplier ELSE multiplier * 10

\* the loop from timezone n on, with the sums so far
RECURSIVE weekday_peak_loop(_, _, _, _, _, _)
weekday_peak_loop(t, timezones, curve, n, total, weight_sum) ==
    IF n > Len(timezones)
    THEN IF weight_sum > 0 THEN Frac(total, 100 * weight_sum) ELSE One
    ELSE weekday_peak_loop(t, timezones, curve, n + 1,
                           total + zone_multiplier(t, timezones[n].name, curve)
                                      * timezones[n].weight,
                           weight_sum + timezones[n].weight)

weekday_peak_multiplier(t, timezones, curve) ==
    weekday_peak_loop(t, timezones, curve, 1, 0, 0)

multiplier(model, t) ==
    IF model.mode = "constant" THEN One
    ELSE IF model.curve = None THEN One
    ELSE weekday_peak_multiplier(t, model.timezones, model.curve[1])

\* the curve of the test weekend_multiplier_applies, and another
CurveChoices ==
    {None,
     Some([weekday_multiplier |-> 10, weekend_multiplier |-> 5,
           peak_hours_local |-> <<9, 10>>, peak_multiplier |-> 20]),
     Some([weekday_multiplier |-> 12, weekend_multiplier |-> 3,
           peak_hours_local |-> <<17>>, peak_multiplier |-> 15])}
ZoneListChoices ==
    {None, Some(<<>>),
     Some(<<[name |-> "UTC", weight |-> 1]>>),
     Some(<<[name |-> "America/Los_Angeles", weight |-> 3],
            [name |-> "Asia/Tokyo", weight |-> 1]>>),
     Some(<<[name |-> "UTC", weight |-> 2], [name |-> "Asia/Tokyo", weight |-> 1],
            [name |-> "America/Los_Angeles", weight |-> 1]>>),
     Some(<<[name |-> "UTC", weight |-> 1], [name |-> "Mars/Olympus", weight |-> 1]>>),
     Some(<<[name |-> "UTC", weight |-> 0]>>)}
TrafficConfigs ==
    [mode : {"constant", "realistic"}, curve : CurveChoices,
     timezone_distribution : ZoneListChoices]
\* Friday 2 January 1970 to Monday 5 January
TrafficTimes == { d * DAY + h * HOUR : d \in 1..4, h \in {1, 9, 10, 17, 23} }

InitTraffic ==
    /\ IdleGenerators
    /\ IdleOutput
    /\ IdleSinks
    /\ IdleRun
    /\ IdlePop
    /\ profile = from_seed(ServiceAlways)
    /\ called = NoCall
    /\ events = <<>>
    /\ traffic \in { traffic_from_config(config) : config \in TrafficConfigs }

CallMultiplier ==
    /\ traffic.ok
    /\ \E t \in TrafficTimes :
          called' = [op |-> "multiplier", now |-> t, ret |-> multiplier(traffic, t)]
    /\ UNCHANGED <<profile, popVars, libCfgVars, cfgVars, genVars, outCfgVars, sinkVars,
                   runCfgVars, runVars>>

NextTraffic == CallMultiplier

SpecTraffic == InitTraffic /\ [][NextTraffic]_vars

(***************************************************************************)
(* Claims about the population (SpecPop).                                  *)
(***************************************************************************)
\* C12: two calls of generate_population with the same population config and
\* the same seed return the same population: the same actors in the same
\* order, with the same account ids, rates and timezone offsets.
C12_SameSeedSamePopulation ==
    \A m, n \in DOMAIN generated : generated[m] = generated[n]

\* C19: the population read back from the file write_population wrote of a
\* generated population equals that population, field for field.
C19_RoundTrip ==
    loaded.read => loaded.ok /\ loaded.actors = generated[pfile.from].actors

Entries == IF popConfig.population.actor = None THEN <<>> ELSE popConfig.population.actor[1]
IsAccountId(value) == Len(value) = 12 /\ \A i \in DOMAIN value : is_ascii_digit(value[i])

\* the fields of entry i that the claim calls invalid, the account id being
\* judged as `account` gives it
Flagged(i, account(_)) ==
    LET e == Entries[i] IN
      (IF trim(e.id) = <<>> \/ \E j \in 1..(i - 1) : trim(Entries[j].id) = trim(e.id)
       THEN {"id"} ELSE {})
      \cup (IF e.kind = "human" /\ e.role = None THEN {"role"} ELSE {})
      \cup (IF e.kind = "human" /\ e.service_profile # None THEN {"service_profile"} ELSE {})
      \cup (IF e.kind = "service" /\ e.service_profile = None THEN {"service_profile"} ELSE {})
      \cup (IF e.kind = "service" /\ e.role # None THEN {"role"} ELSE {})
      \cup (IF e.kind = "service" /\ e.user_name # None THEN {"user_name"} ELSE {})
      \cup (IF e.events_per_hour = None THEN {"events_per_hour"}
            ELSE IF e.events_per_hour[1] <= 0 THEN {"events_per_hour"} ELSE {})
      \cup (IF e.error_rate = None THEN {}
            ELSE IF e.error_rate[1] \notin 0..100 THEN {"error_rate"} ELSE {})
      \cup (IF e.account_id = None THEN {}
            ELSE IF ~IsAccountId(account(e.account_id[1])) THEN {"account_id"} ELSE {})

\* the faults of an entry that the claim does not list
OtherFaults == {"kind", "role", "service_profile", "user_agents", "source_ips",
                "active_start_hour", "active_hours", "timezone"}

\* the error names an entry that is at fault, by its id, and a field at fault
NamesFault(error, account(_)) ==
    \E i \in DOMAIN Entries :
       /\ error.id = IF trim(Entries[i].id) = <<>> THEN None ELSE Some(trim(Entries[i].id))
       /\ error.field \in Flagged(i, account) \cup OtherFaults

Fatal(account(_)) ==
    \A n \in DOMAIN generated :
       (\E i \in DOMAIN Entries : Flagged(i, account) # {}) =>
           /\ ~generated[n].ok
           /\ generated[n].actors = <<>>
           /\ NamesFault(generated[n].error, account)

\* C20 as stated: the account id is judged as it is written in the configuration
C20_Original == Fatal(LAMBDA value : value)

\* C20: generate_population returns an error naming the actor id and the field,
\* and no population, whenever an explicit actor has an empty or duplicate id,
\* is a human without role or with service_profile, is a service without
\* service_profile or with role or user_name, has events_per_hour missing or
\* <= 0, has error_rate outside [0,1], or has an account_id that, with the
\* surrounding whitespace trimmed, is not exactly 12 decimal digits.
C20_InvalidActorIsFatal == Fatal(trim)

\* the second explicit actor, after a valid one, has an account id of 11 digits
C20_Witness ==
    /\ Len(Entries) = 2
    /\ Flagged(1, trim) = {}
    /\ Flagged(2, trim) = {"account_id"}
    /\ generated # <<>>
    /\ ~generated[1].ok
    /\ generated[1].error = ActorConfigError(Some(<<"a">>), "account_id")

\* C21: every ActorSeed of a population generate_population returns has an
\* account_id of exactly 12 decimal digits, whatever account_ids list,
\* account_count and explicit actors the accepted configuration holds.
C21_AccountIdDigits ==
    \A n \in DOMAIN generated : \A i \in DOMAIN generated[n].actors :
       IsAccountId(generated[n].actors[i].account_id)

OfKind(seeds, kind) == { i \in DOMAIN seeds : seeds[i].kind = kind }
ConfiguredTotal ==
    LET wanted == IF popConfig.population.actor_count = None THEN 500
                  ELSE popConfig.population.actor_count[1]
        most == IF wanted > Len(Entries) THEN wanted ELSE Len(Entries)
    IN  IF most > 1 THEN most ELSE 1
ClampedServiceRatio ==
    LET ratio == IF popConfig.population.service_ratio = None THEN 20
                 ELSE popConfig.population.service_ratio[1]
    IN  IF ratio < 0 THEN 0 ELSE IF ratio > 100 THEN 100 ELSE ratio

\* C22: with total = max(configured total, number of explicit actors, 1), a
\* generated population has exactly total actors, round(total * clamp(service_ratio,
\* 0, 1)) of them services and the others humans, also with explicit actors.
C22_PopulationCounts ==
    \A n \in DOMAIN generated :
       generated[n].ok =>
          LET service_count == RoundedShare(ConfiguredTotal, ClampedServiceRatio) IN
          /\ Len(generated[n].actors) = ConfiguredTotal
          /\ Cardinality(OfKind(generated[n].actors, "service")) = service_count
          /\ Cardinality(OfKind(generated[n].actors, "human")) = ConfiguredTotal - service_count

(***************************************************************************)
(* Claims about a template error (Spec).                                   *)
(***************************************************************************)
Scheduled(s) == { e[2] : e \in schedule[s] }

\* C23: a template error costs the one event only: the actor stays in the
\* schedule of its generator, and the source is given up by the dispatcher
\* (its peek empty at the top of the loop) only when its schedule is empty.
C23_TemplateErrorCostsOneEvent ==
    \A s \in Sources :
       /\ DOMAIN actors[s] \subseteq Scheduled(s)
       /\ (pc = "loop" /\ next_event[s] = NoEvent) => schedule[s] = {}

(***************************************************************************)
(* Claims about sessions in a generator (SpecGen).                         *)
(***************************************************************************)
\* the simulated time of the call: the time of the entry next_event pops
PopTime(s) == HeapMin(schedule[s])[1]
StartsSession(s, i) ==
    actors[s][i].session_end_at = NoTime /\ actors'[s][i].session_end_at # NoTime
CooldownPending(p, now) == p.next_session_at # NoTime /\ now < p.next_session_at

PopActor(s) == HeapMin(schedule[s])[2]
SessionCleared(p) ==
    /\ p.session_end_at = NoTime
    /\ p.session_remaining = 0
    /\ p.last_event = None
    /\ p.session_user_agent = None
    /\ p.session_source_ip = None
CooldownInRange(p, now) ==
    \E cooldown \in 0..180 :
       /\ p.next_session_at = now + cooldown * MINUTE
       /\ IF p.seed.kind = "human" THEN 30 <= cooldown /\ cooldown < 180
                                   ELSE 5 <= cooldown /\ cooldown < 30
Emits(s) == produced'[s] # produced[s]

\* C25: when is_available(now) is called with now >= session_end_at, the session
\* fields (session_end_at, session_remaining, last_event, sticky user agent and
\* address) are cleared and next_session_at is now + cooldown, the cooldown in
\* [30,180) minutes for a human and [5,30) for a service; the call returns false
\* (no event is returned, the actor is rescheduled), and the actor emits nothing
\* before that next_session_at: while it is set the actor is scheduled no
\* earlier, and an actor that emits has no cooldown pending at that time.
C25_SessionEndAndCooldown ==
    [][\A s \in Sources : schedule[s] # {} =>
          LET i == PopActor(s)
              now == PopTime(s)
              q == actors'[s][i]
          IN  /\ SessionEnds(actors[s][i], now) =>
                    /\ SessionCleared(q)
                    /\ CooldownInRange(q, now)
                    /\ ~Emits(s)
                    /\ genRet'[s] = Continue
                    /\ \E e \in schedule'[s] : e[2] = i /\ e[1] >= q.next_session_at
              /\ Emits(s) => ~CooldownPending(actors[s][i], now)
              /\ \A j \in DOMAIN actors'[s] : \A e \in schedule'[s] :
                    (e[2] = j /\ actors'[s][j].next_session_at # NoTime)
                       => e[1] >= actors'[s][j].next_session_at]_vars

\* a session of an actor that had emitted has ended: the fields are cleared and the
\* cooldown is pending, after the events of the session
C25_Witness ==
    \E ev \in EventsOf(1) :
       LET p == actors[1][ev.actor] IN
       /\ SessionCleared(p)
       /\ p.next_session_at # NoTime
       /\ parse_event_time(ev.timestamp) < p.next_session_at
       /\ genRet[1] = Continue

(***************************************************************************)
(* Claims about the length of a session (SpecSession, SpecGen).            *)
(***************************************************************************)
\* the session of p is running at time now: begun and not at its end
InSession(p, now) == p.session_end_at # NoTime /\ now < p.session_end_at

\* C26: a session is bounded by session_remaining: an actor emits no more events
\* within one session than the number drawn when the session started.
\* session_remaining is that number less one for each event of the session, so
\* an actor whose session is running with session_remaining = 0 has emitted
\* them all, and emits no further event in that session.
C26_SessionBoundedByRemaining ==
    [][\A s \in Sources :
          (schedule[s] # {} /\ Emits(s)) =>
             LET p == actors[s][PopActor(s)] IN
             ~(InSession(p, PopTime(s)) /\ p.session_remaining = 0)]_vars

\* the time the actor popped in this step is pushed back at
PushedAt(s) == (CHOOSE e \in schedule'[s] \ (schedule[s] \ {HeapMin(schedule[s])}) : TRUE)[1]

\* C27: a session is bounded by session_end_at: the next emission time of an
\* actor that emitted is next_available_at of a time no later than the end of
\* its session, every event is emitted strictly before the end of the session
\* it belongs to, and an actor popped at or after session_end_at ends the
\* session and emits nothing.
C27_SessionBoundedByEnd ==
    [][\A s \in Sources : schedule[s] # {} =>
          LET i == PopActor(s)
              now == PopTime(s)
              p == actors[s][i]
              q == actors'[s][i]
          IN  /\ Emits(s) =>
                    /\ q.session_end_at # NoTime
                    /\ now < q.session_end_at
                    /\ \E interval \in sample_interval :
                          /\ now + interval <= q.session_end_at
                                \/ PushedAt(s) = next_available_at(q, q.session_end_at)
                          /\ now + interval > q.session_end_at
                                \/ PushedAt(s) = next_available_at(q, now + interval)
              /\ SessionEnds(p, now) =>
                    /\ ~Emits(s)
                    /\ q.session_end_at = NoTime]_vars

\* an actor emitted an event and is pushed back at the end of its session, which
\* an interval drawn would have passed
C27_Witness ==
    \E ev \in EventsOf(1) : \E e \in schedule[1] :
       LET p == actors[1][ev.actor] IN
       /\ e[2] = ev.actor
       /\ p.session_end_at # NoTime
       /\ e[1] = p.session_end_at
       /\ parse_event_time(ev.timestamp) < p.session_end_at

(***************************************************************************)
(* Claims about the batches and the flush() of a sink (SpecSink).          *)
(***************************************************************************)
\* C28: in the Parquet sink a batch that reaches DEFAULT_BATCH_SIZE rows is
\* written to a file, so that no region holds more than DEFAULT_BATCH_SIZE
\* unwritten rows once write_event has returned.
C28_BatchRowsBounded ==
    \A w \in ShardIds :
       (sink[w].kind = "parquet" /\ sink[w].stage = "idle") =>
          \A key \in DOMAIN sink[w].regions :
             Len(sink[w].regions[key].batch) <= DEFAULT_BATCH_SIZE

\* the step is a flush() call on sink w that found regions to write
FlushCall(w) ==
    /\ SinkReady(w)
    /\ sink'[w].stage = "region"
    /\ sink'[w].accepted = sink[w].accepted
    /\ ~sink'[w].closed
RegionAge(r) == wall - r.first_event_at
Holds(r) == r.current_size > 0 /\ r.first_event_at # NoTime
\* the step is one of flush_region on the first region of `pending`
FlushRegionStep(w) == sink[w].stage # "idle"
OthersUnchanged(w) ==
    \A key \in DOMAIN sink[w].regions :
       key # Head(sink[w].pending) => sink'[w].regions[key] = sink[w].regions[key]

\* C29 (as stated): a flush() call writes a region buffer only when it is
\* non-empty and its age exceeds max_age_seconds, also when max_age_seconds is 0;
\* every other region buffer is left unchanged.
C29_Original ==
    [][\A w \in ShardIds :
          /\ FlushCall(w) =>
                /\ sink'[w].regions = sink[w].regions
                /\ \A n \in DOMAIN sink'[w].pending :
                      LET r == sink[w].regions[sink'[w].pending[n]] IN
                      Holds(r) /\ RegionAge(r) > max_age_seconds
          /\ FlushRegionStep(w) => OthersUnchanged(w)]_vars

\* C29 (amended): a flush() call writes a region buffer only when it is
\* non-empty and its age is at least max_age_seconds, which every age is when
\* max_age_seconds is 0; every other region buffer is left unchanged.
C29_FlushByAge ==
    [][\A w \in ShardIds :
          /\ FlushCall(w) =>
                /\ sink'[w].regions = sink[w].regions
                /\ \A n \in DOMAIN sink'[w].pending :
                      LET r == sink[w].regions[sink'[w].pending[n]] IN
                      Holds(r) /\ RegionAge(r) >= max_age_seconds
          /\ FlushRegionStep(w) => OthersUnchanged(w)]_vars

\* a flush() call with max_age_seconds = 1 goes on to write a buffer below the
\* target size and leaves a younger one, which holds data, alone
C29_Witness ==
    LET k == sink[TheSink] IN
    /\ max_age_seconds = 1
    /\ k.stage = "region" /\ ~k.closed
    /\ k.regions[Head(k.pending)].current_size < target_size_bytes
    /\ \E key \in DOMAIN k.regions :
          /\ \A n \in DOMAIN k.pending : k.pending[n] # key
          /\ k.regions[key].current_size > 0
          /\ k.regions[key].first_event_at = wall

(***************************************************************************)
(* Claims about the Flush commands of the dispatcher (SpecBlocked).        *)
(***************************************************************************)
\* C30: while the run is active a Flush is sent to every writer shard every
\* second of wall-clock time, also while the dispatcher sleeps in the throttle
\* or waits for room in a full queue: it is never in the send of an iteration,
\* in which it has sent no Flush, for more than a second.
C30_FlushEverySecond ==
    (pc = "send" /\ exit = "running") => wall - loop_start <= 1

(***************************************************************************)
(* Claims about the scheduler heap (SpecGen).                              *)
(***************************************************************************)
EntriesOf(s, i) == { e \in schedule[s] : e[2] = i }

\* C37: the scheduler heap holds exactly one entry per actor after construction
\* and after every return of next_event(): no actor is lost from the schedule
\* and none is scheduled twice.
C37_OneEntryPerActor ==
    \A s \in Sources :
       /\ \A i \in DOMAIN actors[s] : Cardinality(EntriesOf(s, i)) = 1
       /\ \A e \in schedule[s] : e[2] \in DOMAIN actors[s]

(***************************************************************************)
(* Claims about the sticky values of a session (SpecSession).              *)
(***************************************************************************)
\* the event source s returns in this step, and the last one actor i had emitted
Returned(s) == produced'[s][Len(produced'[s])]
NumbersOf(s, i) == { n \in DOMAIN produced[s] : produced[s][n].actor = i }
LastOf(s, i) == produced[s][CHOOSE n \in NumbersOf(s, i) : \A m \in NumbersOf(s, i) : m <= n]
SameSticky(p, q) ==
    /\ p.session_user_agent = q.session_user_agent
    /\ p.session_source_ip = q.session_source_ip

\* C31: the user agent and the source address are session-sticky: an event an
\* actor emits while its session is running carries the user agent and the
\* address of the session, which are those of the event the actor emitted before
\* it, and the values of the profile change only when a session ends or begins.
C31_SessionSticky ==
    [][\A s \in Sources : schedule[s] # {} =>
          LET i == PopActor(s)
              now == PopTime(s)
              p == actors[s][i]
              q == actors'[s][i]
          IN  /\ Emits(s) =>
                    /\ Some(Returned(s).user_agent) = q.session_user_agent
                    /\ Some(Returned(s).ip) = q.session_source_ip
                    /\ InSession(p, now) =>
                          /\ SameSticky(p, q)
                          /\ NumbersOf(s, i) # {}
                          /\ LastOf(s, i).user_agent = Returned(s).user_agent
                          /\ LastOf(s, i).ip = Returned(s).ip
              /\ ~SameSticky(p, q) => (SessionEnds(p, now) \/ p.session_end_at = NoTime)
              /\ \A j \in DOMAIN actors[s] : j # i => SameSticky(actors[s][j], actors'[s][j])]_vars

\* an actor with two source addresses emitted twice in one session from the
\* second of them, and later, in another session, from the first
C31_Witness ==
    /\ Len(produced[1]) >= 3
    /\ actors[1][1].seed = ServiceRoaming
    /\ produced[1][1].ip = "192.0.2.44"
    /\ produced[1][2].ip = "192.0.2.44"
    /\ produced[1][2].timestamp - produced[1][1].timestamp < 1000
    /\ \E n \in 3..Len(produced[1]) : produced[1][n].ip = "203.0.113.9"

\* the explicit entries of the configuration and the place of the k-th of them
\* in a generated population (explicit actors follow the synthesised ones)
ExplicitEntries ==
    IF popConfig.population.actor = None THEN <<>> ELSE popConfig.population.actor[1]
ExplicitAt(g, k) == g.actors[Len(g.actors) - Len(ExplicitEntries) + k]
Seasons == {"winter", "summer"}

\* the offsets the redistribution draws from, when Utc::now() falls in `season`
DistributionOffsets(season) ==
    IF popConfig.timezone_distribution = None THEN {}
    ELSE { TzOffset(e.name, season)[1] :
             e \in { d \in Range(popConfig.timezone_distribution[1]) :
                        d.weight > 0 /\ TzOffset(d.name, season) # None } }

\* C32: timezone redistribution leaves fixed actors untouched: in every
\* generated population each explicit actor with a configured timezone is
\* marked fixed and keeps the offset of its own timezone, whatever the
\* timezone-weight list says, and when the list has a usable entry every
\* other actor carries an offset drawn from the list.
C32_FixedTimezoneKept ==
    \A n \in DOMAIN generated : generated[n].ok =>
       \E season \in Seasons :
          /\ \A k \in DOMAIN ExplicitEntries :
                ExplicitEntries[k].timezone # None =>
                   /\ ExplicitAt(generated[n], k).timezone_fixed
                   /\ ExplicitAt(generated[n], k).timezone_offset
                         = TzOffset(ExplicitEntries[k].timezone[1], season)[1]
          /\ \A i \in DOMAIN generated[n].actors :
                (~generated[n].actors[i].timezone_fixed /\ DistributionOffsets(season) # {})
                   => generated[n].actors[i].timezone_offset \in DistributionOffsets(season)

\* a population with a weight list on Los Angeles whose explicit service stays
\* in Tokyo while a synthesised actor moved to Los Angeles
C32_Witness ==
    \E n \in DOMAIN generated :
       /\ generated[n].ok
       /\ DistributionOffsets("winter") = {0 - 8}
       /\ \E k \in DOMAIN ExplicitEntries :
             /\ ExplicitEntries[k].timezone = Some("Asia/Tokyo")
             /\ ExplicitAt(generated[n], k).timezone_offset = 9
       /\ \E i \in DOMAIN generated[n].actors :
             /\ ~generated[n].actors[i].timezone_fixed
             /\ generated[n].actors[i].timezone_offset \in {0 - 7, 0 - 8}

\* the rate a synthesised actor is created with, the configured share of hot
\* actors in percent and the configured multiplier
BaseRate(a) == IF a.kind = "human" THEN for_role(a.role[1]) ELSE 6
HotPercent ==
    LET r == popConfig.population.hot_actor_ratio
    IN  IF r = None THEN 10 ELSE IF r[1] < 0 THEN 0 ELSE IF r[1] > 100 THEN 100 ELSE r[1]
HotFactor ==
    LET m == popConfig.population.hot_actor_multiplier
    IN  IF m = None THEN 6 ELSE IF m[1] > 1 THEN m[1] ELSE 1
Synthesised(g) == 1..(Len(g.actors) - Len(ExplicitEntries))

\* C33: hot-actor boost: with h = round(len * clamp(hot_ratio, 0, 1)) over the
\* len synthesised actors, there is a set of exactly h of them whose
\* rate_per_hour is the rate they were created with times max(hot_multiplier, 1),
\* once, and every other actor has the rate it was created with.
C33_HotActorBoost ==
    \A n \in DOMAIN generated : generated[n].ok =>
       LET g == generated[n]
           h == RoundedShare(Cardinality(Synthesised(g)), HotPercent)
       IN  /\ \E H \in SUBSET Synthesised(g) :
                 /\ Cardinality(H) = h
                 /\ \A i \in Synthesised(g) :
                       g.actors[i].rate_per_hour
                          = IF i \in H THEN BaseRate(g.actors[i]) * HotFactor
                            ELSE BaseRate(g.actors[i])
           /\ \A k \in DOMAIN ExplicitEntries :
                 ExplicitAt(g, k).rate_per_hour = ExplicitEntries[k].events_per_hour[1]

\* four synthesised actors of which three run at three times, and one at one
\* time, the rate they were created with
C33_Witness ==
    \E n \in DOMAIN generated :
       /\ generated[n].ok
       /\ HotFactor = 3
       /\ Cardinality(Synthesised(generated[n])) = 4
       /\ Cardinality({ i \in Synthesised(generated[n]) :
                           generated[n].actors[i].rate_per_hour
                              = 3 * BaseRate(generated[n].actors[i]) }) = 3
       /\ Cardinality({ i \in Synthesised(generated[n]) :
                           generated[n].actors[i].rate_per_hour
                              = BaseRate(generated[n].actors[i]) }) = 1

(***************************************************************************)
(* Claims about the files and the buffers of a flush (SpecSink).           *)
(***************************************************************************)
\* the step completes flush_region of the first region of `pending` on sink w
FlushCompletes(w) ==
    /\ \/ sink[w].kind = "json" /\ sink[w].stage = "region"
       \/ sink[w].stage = "closed"
    /\ ~sink'[w].err
    /\ sink'[w].pending = Tail(sink[w].pending)
IsReset(r) ==
    /\ r.current_size = 0
    /\ r.first_event_at = NoTime
    /\ "buffer" \in DOMAIN r => (r.buffer = <<>> /\ r.record_count = 0)
    /\ "batch" \in DOMAIN r => r.batch = <<>>

\* C39: no empty file is emitted and a flush resets only its own region: every
\* file a flush_region has completed holds at least one record, and the step
\* that completes the flush of a region leaves its buffer empty, its size and
\* record count 0 and its first-event time unset, while every step of the
\* flush leaves every other region of the sink as it was.
C39_FlushOwnRegionOnly ==
    [][/\ \A f \in JsonFiles' \cup ParquetFiles' : EventsInFile(f) # {}
       /\ \A w \in ShardIds :
             /\ FlushCompletes(w) => IsReset(sink'[w].regions[Head(sink[w].pending)])
             /\ FlushRegionStep(w) =>
                   /\ DOMAIN sink'[w].regions = DOMAIN sink[w].regions
                   /\ \A key \in DOMAIN sink[w].regions :
                         key # Head(sink[w].pending)
                            => sink'[w].regions[key] = sink[w].regions[key]]_vars

\* a flush has written the file of one region and reset it, while another
\* region of the same sink still holds a record
C39_Witness ==
    LET k == sink[TheSink] IN
    /\ k.stage = "idle" /\ ~k.err
    /\ \E f \in JsonFiles \cup ParquetFiles :
          /\ f.shard = TheSink
          /\ f.key \in DOMAIN k.regions
          /\ IsReset(k.regions[f.key])
          /\ \E key \in DOMAIN k.regions : key # f.key /\ k.regions[key].current_size > 0

(***************************************************************************)
(* Claims about a population file of any origin (SpecFile).                *)
(***************************************************************************)
\* C36: every ActorSeed read_population returns satisfies the seed value
\* ranges: rate_per_hour > 0, error_rate in [0,1], active_start_hour in
\* [0,23] and active_hours in [1,24], whatever values the file stores.
C36_ReadSeedRanges ==
    (loaded.read /\ loaded.ok) =>
       \A i \in DOMAIN loaded.actors :
          LET seed == loaded.actors[i] IN
          /\ seed.rate_per_hour > 0
          /\ seed.error_rate \in 0..100
          /\ seed.active_start_hour \in 0..23
          /\ seed.active_hours \in 1..24

(***************************************************************************)
(* Claims about the event names of the CloudTrail generator (SpecPick).    *)
(***************************************************************************)
\* C34: every event name the CloudTrail generator picks belongs to the allowed
\* event set of the generator, for every actor kind, role, service profile and
\* last_event: a candidate outside the set is never picked, and when no
\* candidate is in the set the name is one of the catalogue.
C34_PickedNameAllowed ==
    called.op = "pick_event_for_actor" =>
       /\ called.ret \in allowed_events(events)
       /\ profile.last_event = Some(called.ret)

\* with a catalogue of ConsoleLogin, PutLogEvents and DescribeInstances an admin
\* picked PutLogEvents, which is no candidate of an admin: after ConsoleLogin
\* none of its candidates is in the catalogue
C34_Witness ==
    /\ called.op = "pick_event_for_actor"
    /\ allowed_events(events) = {"ConsoleLogin", "PutLogEvents", "DescribeInstances"}
    /\ profile.seed.role = Some("admin")
    /\ called.ret = "PutLogEvents"

(***************************************************************************)
(* Claims about the traffic multiplier (SpecTraffic).                      *)
(***************************************************************************)
\* the sum of the numbers of a list
RECURSIVE SumOf(_)
SumOf(list) == IF list = <<>> THEN 0 ELSE Head(list) + SumOf(Tail(list))

\* the day factor and the peak factor of place n of the timezones at time t
DayFactor(n, t) ==
    LET local == t + TzOffset(traffic.timezones[n].name, "winter")[1] * HOUR IN
    IF number_from_monday(local \div DAY) >= 6 THEN traffic.curve[1].weekend_multiplier
    ELSE traffic.curve[1].weekday_multiplier
PeakFactor(n, t) ==
    LET local == t + TzOffset(traffic.timezones[n].name, "winter")[1] * HOUR IN
    IF \E k \in DOMAIN traffic.curve[1].peak_hours_local :
          traffic.curve[1].peak_hours_local[k] = (local % DAY) \div HOUR
    THEN traffic.curve[1].peak_multiplier ELSE 10

\* C40: in realistic mode with a weekday-peak curve, multiplier(t) is the
\* weight-averaged value over the timezones of the weekend or weekday
\* multiplier of the local day times the peak multiplier in a local peak hour;
\* the two factors compose by multiplication (weekend 0.5 and peak 2.0 give
\* 1.0); constant mode or a missing curve gives 1.0.
C40_TrafficMultiplier ==
    called.op = "multiplier" =>
       LET t == called.now
           weighted == [n \in DOMAIN traffic.timezones |->
                           DayFactor(n, t) * PeakFactor(n, t) * traffic.timezones[n].weight]
           weights == [n \in DOMAIN traffic.timezones |-> traffic.timezones[n].weight]
       IN  IF traffic.mode = "constant" \/ traffic.curve = None
           THEN called.ret = One
           ELSE /\ SameValue(called.ret,
                             Frac(SumOf(weighted), 100 * SumOf(weights)))
                /\ (/\ Len(traffic.timezones) = 1
                    /\ DayFactor(1, t) = 5 /\ PeakFactor(1, t) = 20) => SameValue(called.ret, One)

\* the case of the test: one timezone, UTC, a Saturday at 09:00, weekend 0.5
\* and peak 2.0 give 1.0
C40_Witness ==
    /\ called.op = "multiplier"
    /\ traffic.mode = "realistic" /\ traffic.curve # None
    /\ traffic.timezones = <<[name |-> "UTC", weight |-> 1]>>
    /\ called.now = 2 * DAY + 9 * HOUR
    /\ traffic.curve[1].weekend_multiplier = 5 /\ traffic.curve[1].peak_multiplier = 20
    /\ called.ret = Frac(100, 100)

(***************************************************************************)
(* Claims about the shared counters (Spec).                                *)
(***************************************************************************)
\* the bytes write_event returns for the events the dispatcher has sent
SentBytes == [n \in DOMAIN sent |-> WrittenBytes(sink[sent[n].shard], sent[n].ev)]
AllExitedOk == \A w \in LiveShards : worker[w] = "done"
\* the step is a write_event of shard w that returned Ok(bytes)
WroteEvent(w, bytes) ==
    /\ queue[w] # <<>>
    /\ Received(queue[w]).cmd = "Event"
    /\ bytes = WrittenBytes(sink[w], Received(queue[w]).ev)
    /\ sink'[w].accepted = Append(sink[w].accepted, Received(queue[w]).ev)
    /\ ~sink'[w].err
    /\ worker'[w] = "running"

\* C35: the shared counters follow the writes: the event counter is never more
\* than the number of events dispatched so far; the counters change only in a
\* step in which a write_event returned Ok, by one event and by the bytes it
\* returned; and once all writer threads have exited without error the event
\* counter is the number of dispatched events and the byte counter the sum of
\* the bytes write_event returned.
C35_CountersFollowWrites ==
    [][/\ counters'.events <= Len(sent')
       /\ counters' # counters =>
             \E w \in LiveShards : \E bytes \in 0..(counters'.bytes) :
                /\ WroteEvent(w, bytes)
                /\ counters'.events = counters.events + 1
                /\ counters'.bytes = counters.bytes + bytes
       /\ AllExitedOk' =>
             /\ counters'.events = Len(sent')
             /\ counters'.events = total_dispatched'
             /\ counters'.bytes = SumOf(SentBytes')]_vars

\* every writer thread has exited without error after two or more events were
\* written, and the counters hold their number and their bytes
C35_Witness ==
    /\ AllExitedOk
    /\ counters.events >= 2
    /\ counters.events = Len(sent)
    /\ counters.bytes = SumOf(SentBytes)
    /\ counters.bytes > counters.events

(***************************************************************************)
(* Claims about the end of a call of next_event() (SpecLoaded).            *)
(***************************************************************************)
\* the entries a step of next_event() pushes
Pushed(s) == schedule'[s] \ (schedule[s] \ {HeapMin(schedule[s])})

\* C38: a call of next_event() of a generator with an actor ends: every pass of
\* its loop either returns an event or pushes the popped actor at a strictly
\* later time at which its active window holds, and no pass is one that never
\* ends in next_available_at (the walk over the dates of
\* next_active_window_start).
C38_NextEventEnds ==
    [][ schedule[1] # {} =>
          /\ genRet'[1] # Hangs
          /\ genRet'[1] = Continue =>
                /\ Pushed(1) # {}
                /\ \A f \in Pushed(1) :
                      /\ f[2] = HeapMin(schedule[1])[2]
                      /\ f[1] > HeapMin(schedule[1])[1]
                      /\ within_active_window(actors'[1][f[2]].seed, f[1]) ]_vars
====
